---- MODULE Spec2Model ----
(***************************************************************************)
(* A model of jsonb_ivm: surgical updates of JSON documents (array         *)
(* update/delete/insert by predicate, shallow/deep/path merges, the        *)
(* integer search helpers and the nesting-depth guard).                    *)
(*                                                                         *)
(* serde_json::Value is a record [t, v]: t is the variant tag and v the    *)
(* payload.  Number is split into its two representations ("int" for the   *)
(* i64 variants, "float" for f64); a float payload counts halves, so       *)
(* F64(3) is 1.5 and F64(2) is 1.0, which is a different Value from        *)
(* I64(1) exactly as serde_json compares N::Float with N::PosInt.          *)
(* An Array payload is a sequence, an Object payload a function from keys  *)
(* to Values.  Option<&Value> is a Value or None; Option<usize> is an      *)
(* index (0-based, as in the source) or NoIdx.                             *)
(***************************************************************************)
EXTENDS Integers, Sequences, FiniteSets, TLC

VARIABLES doc, pre, op, args, res

vars == <<doc, pre, op, args, res>>

-----------------------------------------------------------------------------
(* serde_json::Value *)

Null == [t |-> "null", v |-> 0]
Bool(b) == [t |-> "bool", v |-> b]
I64(n) == [t |-> "int", v |-> n]
F64(h) == [t |-> "float", v |-> h]
Str(s) == [t |-> "str", v |-> s]
Arr(a) == [t |-> "arr", v |-> a]
Obj(o) == [t |-> "obj", v |-> o]

None == [t |-> "none", v |-> 0]
NoIdx == -1

EmptyMap == [k \in {} |-> Null]
EmptyObj == Obj(EmptyMap)

\* The string payloads used by the model, in byte-wise lexicographic order.
StrOrder == <<"", "a", "ab", "b">>

Max(a, b) == IF a >= b THEN a ELSE b

\* Value::get(&str): object lookup, None on every other variant.
Get(val, key) ==
    IF val.t = "obj" /\ key \in DOMAIN val.v THEN val.v[key] ELSE None

\* Value::as_i64 (applied through Option::and_then, so None stays None).
as_i64(val) ==
    IF val.t = "int" THEN [some |-> TRUE, n |-> val.v]
    ELSE [some |-> FALSE, n |-> 0]

\* Number::as_f64, in halves.
as_f64(val) == IF val.t = "int" THEN 2 * val.v ELSE val.v

\* Iterator::position: index of the first element whose predicate value in
\* tests (one BOOLEAN per element) is TRUE, or NoIdx.
Position(tests) ==
    LET hits == {i \in 1..Len(tests) : tests[i]}
    IN  IF hits = {} THEN NoIdx
        ELSE (CHOOSE i \in hits : \A j \in hits : i <= j) - 1

\* serde_json::Map::insert: add the key or overwrite its value.
MapInsert(m, key, value) ==
    [k \in DOMAIN m \cup {key} |-> IF k = key THEN value ELSE m[k]]

\* Map::entry(key).or_default(): a vacant entry gets Null.
EntryOrDefault(m, key, default) ==
    IF key \in DOMAIN m THEN m ELSE MapInsert(m, key, Null)

\* Map::entry(key).or_insert_with(default): the map afterwards.
EntryOrInsert(m, key, default) ==
    IF key \in DOMAIN m THEN m ELSE MapInsert(m, key, default)

\* The keys of a map in its iteration order.
RECURSIVE KeySeq(_)
KeySeq(ks) ==
    IF ks = {} THEN <<>>
    ELSE LET k == CHOOSE x \in ks : TRUE
         IN  <<k>> \o KeySeq(ks \ {k})

\* for (key, value) in source_obj { m.insert(key.clone(), value.clone()) }
RECURSIVE InsertLoopKeep(_, _, _, _)
InsertLoopKeep(m, source_obj, keys, i) ==
    IF i > Len(keys) THEN m
    ELSE InsertLoopKeep(EntryOrInsert(m, keys[i], source_obj[keys[i]]),
                        source_obj, keys, i + 1)

RECURSIVE InsertLoop(_, _, _, _)
InsertLoop(m, source_obj, keys, i) ==
    IF i > Len(keys) THEN m
    ELSE InsertLoop(MapInsert(m, keys[i], source_obj[keys[i]]),
                    source_obj, keys, i + 1)

InsertAll(m, source_obj) ==
    InsertLoop(m, source_obj, KeySeq(DOMAIN source_obj), 1)

\* Results of an operation: the returned document, or the error raised by
\* error!() together with the working copy target_value as it stood then.
Ok(val) == [ok |-> TRUE, val |-> val, err |-> "none"]
Err(work, kind) == [ok |-> FALSE, val |-> work, err |-> kind]

-----------------------------------------------------------------------------
(* Depth guard (depth.rs) *)

\* Scaled-down stand-in for MAX_JSONB_DEPTH = 1000 (depth.rs:11): the model
\* cannot build values a thousand levels deep, so every operation is guarded
\* at this depth instead.
MAX_JSONB_DEPTH == 3

\* The children of a container in iteration order.
Children(val) ==
    IF val.t = "arr" THEN val.v
    ELSE LET keys == KeySeq(DOMAIN val.v)
         IN  [i \in 1..Len(keys) |-> val.v[keys[i]]]

DepthOk(d) == [ok |-> TRUE, d |-> d]
DepthErr == [ok |-> FALSE, d |-> 0]

RECURSIVE check_depth(_, _, _)
RECURSIVE check_children(_, _, _, _, _)

\* The limit itself is refused: current >= max.
check_depth_strict(val, current, max) ==
    IF current >= max THEN DepthErr
    ELSE IF val.t \in {"obj", "arr"}
         THEN check_children(Children(val), 1, current, current, max)
         ELSE DepthOk(current)

check_depth(val, current, max) ==
    IF current > max THEN DepthErr
    ELSE IF val.t \in {"obj", "arr"}
         THEN check_children(Children(val), 1, current, current, max)
         ELSE DepthOk(current)

\* for v in ... { max_child = max_child.max(check_depth(v, current + 1, max)?) }
check_children(kids, i, max_child, current, max) ==
    IF i > Len(kids) THEN DepthOk(max_child)
    ELSE LET r == check_depth(kids[i], current + 1, max)
         IN  IF ~r.ok THEN DepthErr
             ELSE check_children(kids, i + 1, Max(max_child, r.d), current, max)

\* TRUE for Ok(()), FALSE for the "JSONB nesting too deep" error.
validate_depth(val, max_depth) == check_depth(val, 0, max_depth).ok

RECURSIVE max_depth_from(_, _)
RECURSIVE max_depth_children(_, _, _, _)
max_depth_from(val, current) ==
    IF val.t \in {"obj", "arr"}
    THEN max_depth_children(Children(val), 1, current, current)
    ELSE current

max_depth_children(kids, i, max_child, current) ==
    IF i > Len(kids) THEN max_child
    ELSE max_depth_children(kids, i + 1,
             Max(max_child, max_depth_from(kids[i], current + 1)), current)

get_max_depth(val) == max_depth_from(val, 0)

-----------------------------------------------------------------------------
(* Integer search helpers (lib.rs) *)

SEARCH_THRESHOLD == 32
UNROLL == 8

IntFieldIs(elem, match_key, match_value) ==
    LET f == Get(elem, match_key)
    IN  f # None /\ as_i64(f) = [some |-> TRUE, n |-> match_value]

find_by_int_id_scalar(array, match_key, match_value) ==
    Position([i \in 1..Len(array) |->
                 IntFieldIs(array[i], match_key, match_value)])

\* for i in 0..UNROLL { ... return Some(base + i) }
RECURSIVE unrolled_chunk(_, _, _, _, _)
unrolled_chunk(array, match_key, match_value, base, i) ==
    IF i >= UNROLL THEN NoIdx
    ELSE IF IntFieldIs(array[base + i + 1], match_key, match_value)
         THEN base + i
         ELSE unrolled_chunk(array, match_key, match_value, base, i + 1)

\* for chunk_idx in 0..chunks { let base = chunk_idx * UNROLL; ... }
RECURSIVE chunk_loop(_, _, _, _, _)
chunk_loop(array, match_key, match_value, chunk_idx, chunks) ==
    IF chunk_idx >= chunks THEN NoIdx
    ELSE LET r == unrolled_chunk(array, match_key, match_value,
                                 chunk_idx * UNROLL, 0)
         IN  IF r # NoIdx THEN r
             ELSE chunk_loop(array, match_key, match_value,
                             chunk_idx + 1, chunks)

\* for i in (chunks * UNROLL)..array.len() { ... }
RECURSIVE remainder_loop(_, _, _, _)
remainder_loop(array, match_key, match_value, i) ==
    IF i >= Len(array) THEN NoIdx
    ELSE IF IntFieldIs(array[i + 1], match_key, match_value) THEN i
         ELSE remainder_loop(array, match_key, match_value, i + 1)

\* The chunk loop stops one chunk early.
find_by_int_id_optimized_tail(array, match_key, match_value) ==
    IF Len(array) < SEARCH_THRESHOLD
    THEN find_by_int_id_scalar(array, match_key, match_value)
    ELSE LET chunks == Len(array) \div UNROLL
             r == chunk_loop(array, match_key, match_value, 0, chunks - 1)
         IN  IF r # NoIdx THEN r
             ELSE remainder_loop(array, match_key, match_value,
                                 chunks * UNROLL)

find_by_int_id_optimized(array, match_key, match_value) ==
    IF Len(array) < SEARCH_THRESHOLD
    THEN find_by_int_id_scalar(array, match_key, match_value)
    ELSE LET chunks == Len(array) \div UNROLL
             r == chunk_loop(array, match_key, match_value, 0, chunks)
         IN  IF r # NoIdx THEN r
             ELSE remainder_loop(array, match_key, match_value,
                                 chunks * UNROLL)

\* array_ops.rs: integer fast path first, generic equality scan as fallback.
find_element_by_match(array, match_key, match_value) ==
    LET int_val == as_i64(match_value)
        fast == IF int_val.some
                THEN find_by_int_id_optimized(array, match_key, int_val.n)
                ELSE NoIdx
    IN  IF fast # NoIdx THEN fast
        ELSE Position([i \in 1..Len(array) |->
                          Get(array[i], match_key) = match_value])

-----------------------------------------------------------------------------
(* Array surgery (array_ops.rs) *)

\* elem_obj.insert(..) for every key of updates, on element idx of the array
\* stored under array_path.
WithArray(target, array_path, items) ==
    Obj(MapInsert(target.v, array_path, Arr(items)))

\* The type of updates is looked at only once an element has matched.
jsonb_array_update_where_lazy(target, array_path, match_key, match_value, updates) ==
    LET array == Get(target, array_path)
    IN  IF array = None THEN Err(target, "path does not exist")
        ELSE IF array.t # "arr" THEN Err(target, "path is not an array")
        ELSE IF ~validate_depth(updates, MAX_JSONB_DEPTH)
             THEN Err(target, "nesting too deep")
        ELSE LET array_items == array.v
                 match_idx == find_element_by_match(array_items, match_key,
                                                    match_value)
             IN  IF match_idx # NoIdx /\ array_items[match_idx + 1].t = "obj"
                 THEN IF updates.t # "obj"
                      THEN Err(target, "updates is not an object")
                      ELSE Ok(WithArray(target, array_path,
                              [array_items EXCEPT ![match_idx + 1] =
                                  Obj(InsertAll(@.v, updates.v))]))
                 ELSE Ok(target)

jsonb_array_update_where(target, array_path, match_key, match_value, updates) ==
    LET array == Get(target, array_path)
    IN  IF array = None THEN Err(target, "path does not exist")
        ELSE IF array.t # "arr" THEN Err(target, "path is not an array")
        ELSE IF ~validate_depth(updates, MAX_JSONB_DEPTH)
             THEN Err(target, "nesting too deep")
        ELSE IF updates.t # "obj" THEN Err(target, "updates is not an object")
        ELSE LET array_items == array.v
                 match_idx == find_element_by_match(array_items, match_key,
                                                    match_value)
             IN  IF match_idx # NoIdx /\ array_items[match_idx + 1].t = "obj"
                 THEN Ok(WithArray(target, array_path,
                         [array_items EXCEPT ![match_idx + 1] =
                             Obj(InsertAll(@.v, updates.v))]))
                 ELSE Ok(target)

\* update_map.insert(match_value, updates_obj) for every well-formed spec;
\* malformed specs are skipped.
RECURSIVE build_update_map(_, _, _)
RECURSIVE build_update_map_first_wins(_, _, _)

\* update_map.entry(match_value).or_insert(updates_obj): the first entry of a
\* match_value stays.
build_update_map_first_wins(updates_list, i, update_map) ==
    IF i > Len(updates_list) THEN update_map
    ELSE LET update_spec == updates_list[i]
             match_value == Get(update_spec, "match_value")
             updates_obj == Get(update_spec, "updates")
         IN  IF \/ update_spec.t # "obj"
                \/ match_value = None
                \/ ~as_i64(match_value).some
                \/ updates_obj = None
                \/ updates_obj.t # "obj"
                \/ as_i64(match_value).n \in DOMAIN update_map
             THEN build_update_map_first_wins(updates_list, i + 1, update_map)
             ELSE build_update_map_first_wins(updates_list, i + 1,
                      MapInsert(update_map, as_i64(match_value).n,
                                updates_obj.v))

build_update_map(updates_list, i, update_map) ==
    IF i > Len(updates_list) THEN update_map
    ELSE LET update_spec == updates_list[i]
             match_value == Get(update_spec, "match_value")
             updates_obj == Get(update_spec, "updates")
         IN  IF \/ update_spec.t # "obj"
                \/ match_value = None
                \/ ~as_i64(match_value).some
                \/ updates_obj = None
                \/ updates_obj.t # "obj"
             THEN build_update_map(updates_list, i + 1, update_map)
             ELSE build_update_map(updates_list, i + 1,
                      MapInsert(update_map, as_i64(match_value).n,
                                updates_obj.v))

jsonb_array_update_where_batch(target, array_path, match_key, updates_array) ==
    LET array == Get(target, array_path)
    IN  IF array = None THEN Err(target, "path does not exist")
        ELSE IF array.t # "arr" THEN Err(target, "path is not an array")
        ELSE IF updates_array.t # "arr"
             THEN Err(target, "updates_array is not an array")
        ELSE LET update_map == build_update_map(updates_array.v, 1,
                                                [n \in {} |-> EmptyMap])
                 Updated(element) ==
                     LET elem_id == Get(element, match_key)
                     IN  IF /\ element.t = "obj"
                            /\ elem_id # None
                            /\ as_i64(elem_id).some
                            /\ as_i64(elem_id).n \in DOMAIN update_map
                         THEN Obj(InsertAll(element.v,
                                            update_map[as_i64(elem_id).n]))
                         ELSE element
             IN  Ok(WithArray(target, array_path,
                        [i \in 1..Len(array.v) |-> Updated(array.v[i])]))

\* Vec::swap_remove(idx): the last element fills the hole.
SwapRemove(items, idx) ==
    [i \in 1..(Len(items) - 1) |->
        IF i = idx + 1 THEN items[Len(items)] ELSE items[i]]

\* Vec::remove(idx), idx 0-based.
Remove(items, idx) ==
    [i \in 1..(Len(items) - 1) |->
        IF i <= idx THEN items[i] ELSE items[i + 1]]

\* As the update: a missing field or a non-array field is an error.
jsonb_array_delete_where_strict(target, array_path, match_key, match_value) ==
    LET array == Get(target, array_path)
    IN  IF array = None THEN Err(target, "path does not exist")
        ELSE IF array.t # "arr" THEN Err(target, "path is not an array")
        ELSE LET idx == find_element_by_match(array.v, match_key, match_value)
             IN  IF idx # NoIdx
                 THEN Ok(WithArray(target, array_path, Remove(array.v, idx)))
                 ELSE Ok(target)

\* find_element_by_match(..).unwrap_or(0): without a match the first element
\* goes.
jsonb_array_delete_where_or_first(target, array_path, match_key, match_value) ==
    LET array == Get(target, array_path)
    IN  IF array = None THEN Ok(target)
        ELSE IF array.t # "arr" THEN Ok(target)
        ELSE LET idx == find_element_by_match(array.v, match_key, match_value)
             IN  IF idx # NoIdx
                 THEN Ok(WithArray(target, array_path, Remove(array.v, idx)))
                 ELSE IF array.v # <<>>
                 THEN Ok(WithArray(target, array_path, Remove(array.v, 0)))
                 ELSE Ok(target)

jsonb_array_delete_where(target, array_path, match_key, match_value) ==
    LET array == Get(target, array_path)
    IN  IF array = None THEN Ok(target)
        ELSE IF array.t # "arr" THEN Ok(target)
        ELSE LET idx == find_element_by_match(array.v, match_key, match_value)
             IN  IF idx # NoIdx
                 THEN Ok(WithArray(target, array_path, Remove(array.v, idx)))
                 ELSE Ok(target)

StrRank(s) == CHOOSE i \in 1..Len(StrOrder) : StrOrder[i] = s

Cmp(a, b) == IF a < b THEN "Less" ELSE IF a > b THEN "Greater" ELSE "Equal"

IsNumber(val) == val.t \in {"int", "float"}

compare_values(a, b) ==
    IF IsNumber(a) /\ IsNumber(b)
    THEN IF as_i64(a).some /\ as_i64(b).some
         THEN Cmp(as_i64(a).n, as_i64(b).n)
         ELSE Cmp(as_f64(a), as_f64(b))
    ELSE IF a.t = "str" /\ b.t = "str" THEN Cmp(StrRank(a.v), StrRank(b.v))
    ELSE IF a.t = "bool" /\ b.t = "bool"
         THEN Cmp(IF a.v THEN 1 ELSE 0, IF b.v THEN 1 ELSE 0)
    ELSE IF a.t = "null" THEN "Less"
    ELSE IF b.t = "null" THEN "Greater"
    ELSE IF a.t = "bool" THEN "Less"
    ELSE IF b.t = "bool" THEN "Greater"
    ELSE IF IsNumber(a) THEN "Less"
    ELSE IF IsNumber(b) THEN "Greater"
    ELSE IF a.t = "str" THEN "Less"
    ELSE IF b.t = "str" THEN "Greater"
    ELSE "Equal"

\* str::eq_ignore_ascii_case("ASC") over the order strings the model passes.
IsAsc(sort_order) ==
    sort_order \in {"ASC", "ASc", "AsC", "Asc", "aSC", "aSc", "asC", "asc"}

\* ASC is recognised only in upper case.
find_insertion_point_upper(array, new_val, sort_key, sort_order) ==
    IF new_val = None THEN Len(array)
    ELSE LET pos == Position([i \in 1..Len(array) |->
                        LET elem_val == Get(array[i], sort_key)
                        IN  IF elem_val = None THEN FALSE
                            ELSE IF sort_order = "ASC"
                                 THEN compare_values(new_val, elem_val) = "Less"
                                 ELSE compare_values(new_val, elem_val) = "Greater"])
         IN  IF pos = NoIdx THEN Len(array) ELSE pos

find_insertion_point(array, new_val, sort_key, sort_order) ==
    IF new_val = None THEN Len(array)
    ELSE LET pos == Position([i \in 1..Len(array) |->
                        LET elem_val == Get(array[i], sort_key)
                        IN  IF elem_val = None THEN FALSE
                            ELSE IF IsAsc(sort_order)
                                 THEN compare_values(new_val, elem_val) = "Less"
                                 ELSE compare_values(new_val, elem_val) = "Greater"])
         IN  IF pos = NoIdx THEN Len(array) ELSE pos

\* items[pos] = elem: the element at pos is overwritten, not shifted.
InsertAtOverwrite(items, pos, elem) ==
    IF pos >= Len(items) THEN Append(items, elem)
    ELSE [items EXCEPT ![pos + 1] = elem]

\* Vec::insert(pos, elem), pos 0-based.
InsertAt(items, pos, elem) ==
    [i \in 1..(Len(items) + 1) |->
        IF i <= pos THEN items[i]
        ELSE IF i = pos + 1 THEN elem ELSE items[i - 1]]

\* sort_key and sort_order are Option<&str>: a string or NoStr.
NoStr == "<none>"

jsonb_array_insert_where(target, array_path, new_element, sort_key, sort_order) ==
    IF target.t # "obj" THEN Err(target, "target is not an object")
    ELSE LET target_obj == EntryOrInsert(target.v, array_path, Arr(<<>>))
             array == target_obj[array_path]
         IN  IF array.t # "arr"
             THEN Err(Obj(target_obj), "path is not an array")
             ELSE IF sort_key # NoStr
                  THEN LET new_sort_val == Get(new_element, sort_key)
                           order == IF sort_order = NoStr THEN "ASC"
                                    ELSE sort_order
                           insert_pos == find_insertion_point(array.v,
                                             new_sort_val, sort_key, order)
                       IN  Ok(Obj(MapInsert(target_obj, array_path,
                               Arr(InsertAt(array.v, insert_pos, new_element)))))
                  ELSE Ok(Obj(MapInsert(target_obj, array_path,
                               Arr(Append(array.v, new_element)))))

-----------------------------------------------------------------------------
(* Merges (merge.rs) *)

\* The merge runs the wrong way round: target's values win on collision.
jsonb_merge_shallow_reversed(target, source) ==
    IF target = None \/ source = None THEN Ok(None)
    ELSE IF ~validate_depth(source, MAX_JSONB_DEPTH)
         THEN Err(target, "nesting too deep")
    ELSE IF target.t # "obj" THEN Err(target, "target is not an object")
    ELSE IF source.t # "obj" THEN Err(target, "source is not an object")
    ELSE Ok(Obj(InsertAll(source.v, target.v)))

\* target and source are Option<JsonB>: None short-circuits to None.
jsonb_merge_shallow(target, source) ==
    IF target = None \/ source = None THEN Ok(None)
    ELSE IF ~validate_depth(source, MAX_JSONB_DEPTH)
         THEN Err(target, "nesting too deep")
    ELSE IF target.t # "obj" THEN Err(target, "target is not an object")
    ELSE IF source.t # "obj" THEN Err(target, "source is not an object")
    ELSE Ok(Obj(InsertAll(target.v, source.v)))

\* The loop over path_vec from hop i (0-based) with current as the node
\* reached; the result carries current as rewritten in place, also when the
\* hop fails.
RECURSIVE merge_at_path_from(_, _, _, _)
RECURSIVE merge_at_path_from_default(_, _, _, _)
RECURSIVE merge_at_path_from_replace(_, _, _, _)

\* A missing intermediate key gets Value::default(), which is Null.
merge_at_path_from_default(current, source_obj, path_vec, i) ==
    LET key == path_vec[i + 1]
        is_last == i = Len(path_vec) - 1
    IN  IF is_last
        THEN IF current.t # "obj"
             THEN Err(current, "path navigation failed")
             ELSE LET parent_obj == EntryOrInsert(current.v, key, EmptyObj)
                      target_at_path == parent_obj[key]
                  IN  IF target_at_path.t # "obj"
                      THEN Err(Obj(parent_obj), "cannot merge into non-object")
                      ELSE Ok(Obj(MapInsert(parent_obj, key,
                                  Obj(InsertAll(target_at_path.v, source_obj)))))
        ELSE IF current.t # "obj"
             THEN Err(current, "path navigation failed")
             ELSE LET obj == EntryOrInsert(current.v, key, Null)
                      r == merge_at_path_from_default(obj[key], source_obj,
                                                      path_vec, i + 1)
                  IN  [r EXCEPT !.val = Obj(MapInsert(obj, key, r.val))]

\* The Object at the path is replaced by source instead of merged with it.
merge_at_path_from_replace(current, source_obj, path_vec, i) ==
    LET key == path_vec[i + 1]
        is_last == i = Len(path_vec) - 1
    IN  IF is_last
        THEN IF current.t # "obj"
             THEN Err(current, "path navigation failed")
             ELSE LET parent_obj == EntryOrInsert(current.v, key, EmptyObj)
                      target_at_path == parent_obj[key]
                  IN  IF target_at_path.t # "obj"
                      THEN Err(Obj(parent_obj), "cannot merge into non-object")
                      ELSE Ok(Obj(MapInsert(parent_obj, key, Obj(source_obj))))
        ELSE IF current.t # "obj"
             THEN Err(current, "path navigation failed")
             ELSE LET obj == EntryOrInsert(current.v, key, EmptyObj)
                      r == merge_at_path_from_replace(obj[key], source_obj,
                                                      path_vec, i + 1)
                  IN  [r EXCEPT !.val = Obj(MapInsert(obj, key, r.val))]

merge_at_path_from(current, source_obj, path_vec, i) ==
    LET key == path_vec[i + 1]
        is_last == i = Len(path_vec) - 1
    IN  IF is_last
        THEN IF current.t # "obj"
             THEN Err(current, "path navigation failed")
             ELSE LET parent_obj == EntryOrInsert(current.v, key, EmptyObj)
                      target_at_path == parent_obj[key]
                  IN  IF target_at_path.t # "obj"
                      THEN Err(Obj(parent_obj), "cannot merge into non-object")
                      ELSE Ok(Obj(MapInsert(parent_obj, key,
                                  Obj(InsertAll(target_at_path.v, source_obj)))))
        ELSE IF current.t # "obj"
             THEN Err(current, "path navigation failed")
             ELSE LET obj == EntryOrInsert(current.v, key, EmptyObj)
                      r == merge_at_path_from(obj[key], source_obj, path_vec,
                                              i + 1)
                  IN  [r EXCEPT !.val = Obj(MapInsert(obj, key, r.val))]

\* A root that is not an Object is replaced by an empty one before the walk.
jsonb_merge_at_path_new_root(target, source, path) ==
    IF source.t # "obj" THEN Err(target, "source is not an object")
    ELSE IF path = <<>>
         THEN IF target.t # "obj" THEN Err(target, "target is not an object")
              ELSE Ok(Obj(InsertAll(target.v, source.v)))
         ELSE merge_at_path_from(IF target.t = "obj" THEN target ELSE EmptyObj,
                                 source.v, path, 0)

jsonb_merge_at_path(target, source, path) ==
    IF source.t # "obj" THEN Err(target, "source is not an object")
    ELSE IF path = <<>>
         THEN IF target.t # "obj" THEN Err(target, "target is not an object")
              ELSE Ok(Obj(InsertAll(target.v, source.v)))
         ELSE merge_at_path_from(target, source.v, path, 0)

\* The update of one array element with source as the patch; no depth guard
\* is run on source.
jsonb_smart_patch_array(target, source, array_path, match_key, match_value) ==
    LET array == Get(target, array_path)
    IN  IF array = None THEN Err(target, "path does not exist")
        ELSE IF array.t # "arr" THEN Err(target, "path is not an array")
        ELSE IF source.t # "obj" THEN Err(target, "updates is not an object")
        ELSE LET array_items == array.v
                 match_idx == find_element_by_match(array_items, match_key,
                                                    match_value)
             IN  IF match_idx # NoIdx /\ array_items[match_idx + 1].t = "obj"
                 THEN Ok(WithArray(target, array_path,
                         [array_items EXCEPT ![match_idx + 1] =
                             Obj(InsertAll(@.v, source.v))]))
                 ELSE Ok(target)

RECURSIVE deep_merge_recursive(_, _)
RECURSIVE deep_merge_loop(_, _, _, _)

\* An occupied entry is always replaced by the source value.
RECURSIVE deep_merge_loop_shallow(_, _, _, _)
deep_merge_loop_shallow(target_obj, source_obj, keys, i) ==
    IF i > Len(keys) THEN target_obj
    ELSE deep_merge_loop_shallow(
             MapInsert(target_obj, keys[i], source_obj[keys[i]]),
             source_obj, keys, i + 1)

\* for (key, source_value) in source_obj { match target_obj.entry(key) ... }
deep_merge_loop(target_obj, source_obj, keys, i) ==
    IF i > Len(keys) THEN target_obj
    ELSE LET key == keys[i]
             source_value == source_obj[key]
             merged ==
                 IF key \in DOMAIN target_obj
                 THEN IF target_obj[key].t = "obj" /\ source_value.t = "obj"
                      THEN MapInsert(target_obj, key,
                               deep_merge_recursive(target_obj[key], source_value))
                      ELSE MapInsert(target_obj, key, source_value)
                 ELSE MapInsert(target_obj, key, source_value)
         IN  deep_merge_loop(merged, source_obj, keys, i + 1)

\* Every pair falls through to the arm where source wins.
deep_merge_recursive_source_wins(target, source) == source

\* Where the two are not both Objects, source is stored under a key of a
\* new Object.
deep_merge_recursive_wrapped(target, source) ==
    IF target.t = "obj" /\ source.t = "obj"
    THEN Obj(deep_merge_loop(target.v, source.v, KeySeq(DOMAIN source.v), 1))
    ELSE Obj([value |-> source])

deep_merge_recursive(target, source) ==
    IF target.t = "obj" /\ source.t = "obj"
    THEN Obj(deep_merge_loop(target.v, source.v, KeySeq(DOMAIN source.v), 1))
    ELSE source

\* The merge runs without the depth guard.
jsonb_deep_merge_unguarded(target, source) ==
    Ok(deep_merge_recursive(target, source))

jsonb_deep_merge(target, source) ==
    IF ~validate_depth(source, MAX_JSONB_DEPTH)
    THEN Err(target, "nesting too deep")
    ELSE Ok(deep_merge_recursive(target, source))

-----------------------------------------------------------------------------
(* Paths (path.rs) *)

\* PathSegment: Key(name) or Index(position).
Key(name) == [t |-> "Key", v |-> name]
Index(n) == [t |-> "Index", v |-> n]

\* Path text is a sequence of one-character strings.
Digits == <<"0", "1", "2", "3", "4", "5", "6", "7", "8", "9">>

IsDigit(ch) == \E d \in 1..Len(Digits) : Digits[d] = ch
DigitValue(ch) == (CHOOSE d \in 1..Len(Digits) : Digits[d] = ch) - 1

\* chars.by_ref().take_while(|c| c != ']') from position i: the characters
\* taken, up to the first ']' or the end of the text.
RECURSIVE take_while_not_close(_, _)
take_while_not_close(chars, i) ==
    IF i > Len(chars) \/ chars[i] = "]" THEN <<>>
    ELSE <<chars[i]>> \o take_while_not_close(chars, i + 1)

\* The value of a run of decimal digits.
RECURSIVE DecimalValue(_, _, _)
DecimalValue(digits, i, acc) ==
    IF i > Len(digits) THEN acc
    ELSE DecimalValue(digits, i + 1, acc * 10 + DigitValue(digits[i]))

\* str::parse::<usize>: an optional '+' followed by one or more decimal
\* digits; anything else is an error.  The bodies met here stay far below
\* usize::MAX.
parse_usize(index_str) ==
    LET digits == IF index_str # <<>> /\ Head(index_str) = "+"
                  THEN Tail(index_str) ELSE index_str
    IN  IF digits = <<>> \/ \E i \in 1..Len(digits) : ~IsDigit(digits[i])
        THEN [ok |-> FALSE, n |-> 0]
        ELSE [ok |-> TRUE, n |-> DecimalValue(digits, 1, 0)]

PathOk(segments) == [ok |-> TRUE, segments |-> segments, err |-> "none"]
PathErr(kind) == [ok |-> FALSE, segments |-> <<>>, err |-> kind]

\* segments.push(PathSegment::Key(current_key)) when current_key is not empty.
PushKey(segments, current_key) ==
    IF current_key # "" THEN Append(segments, Key(current_key)) ELSE segments

RECURSIVE parse_loop(_, _, _, _)

\* The dot arm without the look-ahead for a second dot.
dot_arm_lenient(chars, i, segments, current_key) ==
    parse_loop(chars, i + 1, PushKey(segments, current_key), "")

\* '.' => push the pending key; fail if the next character is a dot too.
dot_arm(chars, i, segments, current_key) ==
    IF i < Len(chars) /\ chars[i + 1] = "."
    THEN PathErr("consecutive dots")
    ELSE parse_loop(chars, i + 1, PushKey(segments, current_key), "")

\* The bracket arm forgets the key pending before the bracket.
bracket_arm_drop_key(chars, i, segments, current_key) ==
    LET index_str == take_while_not_close(chars, i + 1)
        index == parse_usize(index_str)
    IN  IF index_str = <<>> THEN PathErr("empty array index")
        ELSE IF ~index.ok THEN PathErr("invalid array index")
        ELSE parse_loop(chars, i + Len(index_str) + 2,
                        Append(segments, Index(index.n)), "")

\* '[' => push the pending key, take the body up to ']' (which take_while
\* consumes as well) and parse it as an index.
bracket_arm(chars, i, segments, current_key) ==
    LET index_str == take_while_not_close(chars, i + 1)
        index == parse_usize(index_str)
    IN  IF index_str = <<>> THEN PathErr("empty array index")
        ELSE IF ~index.ok THEN PathErr("invalid array index")
        ELSE parse_loop(chars, i + Len(index_str) + 2,
                        Append(PushKey(segments, current_key),
                               Index(index.n)), "")

\* while let Some(ch) = chars.next() { match ch ... } from position i, and
\* the code after the loop.
parse_loop(chars, i, segments, current_key) ==
    IF i > Len(chars)
    THEN LET all == PushKey(segments, current_key)
         IN  IF all = <<>> THEN PathErr("empty path") ELSE PathOk(all)
    ELSE LET ch == chars[i]
         IN  CASE ch = "." -> dot_arm(chars, i, segments, current_key)
               [] ch = "[" -> bracket_arm(chars, i, segments, current_key)
               [] ch = "]" -> PathErr("unexpected closing bracket")
               [] OTHER ->
                    parse_loop(chars, i + 1, segments, current_key \o ch)

parse_path(path) == parse_loop(path, 1, <<>>, "")

\* A missing key or index reads as Null, the way Value's index operator
\* does.
nav_step_index_operator(current, segment) ==
    IF segment.t = "Key"
    THEN IF current.t = "obj"
         THEN IF segment.v \in DOMAIN current.v THEN current.v[segment.v]
              ELSE Null
         ELSE None
    ELSE IF current.t = "arr"
         THEN IF segment.v < Len(current.v) THEN current.v[segment.v + 1]
              ELSE Null
         ELSE None

\* One segment of navigate_path: obj.get(key)? on an Object, arr.get(idx)?
\* on an Array, None on anything else.
nav_step(current, segment) ==
    IF segment.t = "Key"
    THEN IF current.t = "obj" THEN Get(current, segment.v) ELSE None
    ELSE IF current.t = "arr"
         THEN IF segment.v < Len(current.v) THEN current.v[segment.v + 1]
              ELSE None
         ELSE None

\* for segment in path { ... } from segment i (1-based) with current reached.
RECURSIVE nav_loop(_, _, _)
nav_loop(current, path, i) ==
    IF i > Len(path) THEN current
    ELSE LET next == nav_step(current, path[i])
         IN  IF next = None THEN None ELSE nav_loop(next, path, i + 1)

\* Some(value) is the value, None is None.
navigate_path(json, path) == nav_loop(json, path, 1)

\* The array is extended to idx elements only.
pad_short(arr, idx) ==
    arr \o [k \in 1..(idx - Len(arr)) |-> Null]

\* while arr.len() <= idx { arr.push(Value::Null) }
pad(arr, idx) ==
    arr \o [k \in 1..(idx + 1 - Len(arr)) |-> Null]

\* if !current.is_object() { *current = Value::Object(Map::new()) }
as_object_or_new(current) == IF current.t = "obj" THEN current.v ELSE EmptyMap

\* if !current.is_array() { *current = Value::Array(Vec::new()) }
as_array_or_new(current) == IF current.t = "arr" THEN current.v ELSE <<>>

\* The walk of set_path from segment i (1-based) with current as the node
\* reached, returning current as rewritten in place: the parent segments
\* create or replace containers, the final one assigns value.
RECURSIVE set_from(_, _, _, _)
set_from(current, path, i, value) ==
    LET segment == path[i]
        is_final == i = Len(path)
    IN  IF segment.t = "Key"
        THEN LET obj == as_object_or_new(current)
                 key == segment.v
             IN  IF is_final THEN Obj(MapInsert(obj, key, value))
                 ELSE LET entered == EntryOrInsert(obj, key, EmptyObj)
                      IN  Obj(MapInsert(entered, key,
                              set_from(entered[key], path, i + 1, value)))
        ELSE LET arr == pad(as_array_or_new(current), segment.v)
                 idx == segment.v
             IN  IF is_final THEN Arr([arr EXCEPT ![idx + 1] = value])
                 ELSE Arr([arr EXCEPT ![idx + 1] =
                              set_from(arr[idx + 1], path, i + 1, value)])

set_path(json, path, value) ==
    IF path = <<>> THEN Err(json, "cannot set empty path")
    ELSE Ok(set_from(json, path, 1, value))

-----------------------------------------------------------------------------
(* Callers: a materialized document maintained by array surgery *)

\* Longest array the callers grow a document to.
MaxArrLen == 3

E1 == Obj([id |-> I64(1)])
E2 == Obj([id |-> I64(1), ts |-> Str("a")])
E3 == Obj([id |-> I64(2), ts |-> Str("b")])
E4 == Obj([id |-> F64(2)])
E5 == I64(1)

\* An Object patch nested one level deeper than the guard admits.
RECURSIVE Nested(_)
Nested(n) == IF n = 0 THEN I64(0) ELSE Obj([n |-> Nested(n - 1)])

TooDeep == Nested(MAX_JSONB_DEPTH + 1)

\* An Object nested exactly as deep as the guard admits.
AtLimit == Nested(MAX_JSONB_DEPTH)

MatchKeys == {"id", "ts"}
MatchValues == {I64(1), I64(2), F64(2), Str("a")}

\* The calls the callers make.  "items" is the array field; "meta" holds a
\* scalar, so it stands for a field that is present but not an array.
Call(path, key, val, src, order) ==
    [path |-> path, key |-> key, val |-> val, src |-> src, order |-> order]

UpdateCalls ==
    {Call("items", k, mv, u, NoStr) :
        k \in MatchKeys, mv \in MatchValues, u \in {EmptyObj, Obj([ts |-> Str("a")])}}
    \cup {Call("items", "id", I64(1), u, NoStr) : u \in {Str("a"), Arr(<<>>), TooDeep}}
    \cup {Call("items", "id", I64(9), Str("a"), NoStr),
          Call("meta", "id", I64(1), EmptyObj, NoStr)}

DeleteCalls ==
    {Call("items", k, mv, None, NoStr) : k \in MatchKeys, mv \in MatchValues}
    \cup {Call("meta", "id", I64(1), None, NoStr)}

InsertCalls ==
    {Call("items", sk[1], None, e, sk[2]) :
        e \in {E1, E2, E3, E4, E5}, sk \in {<<NoStr, NoStr>>, <<"ts", NoStr>>, <<"ts", "DESC">>}}
    \cup {Call("meta", NoStr, None, E1, NoStr)}

SeedDocs == {Obj([meta |-> I64(7)]),
             Obj([items |-> Arr(<<>>), meta |-> I64(7)]),
             Obj([items |-> Arr(<<E3, E1>>), meta |-> I64(7)]),
             I64(5)}

NoArgs == Call(NoStr, NoStr, None, None, NoStr)

Init ==
    /\ doc \in SeedDocs
    /\ pre = doc
    /\ op = "init"
    /\ args = NoArgs
    /\ res = Ok(doc)

Apply(name, c, r) ==
    /\ op' = name
    /\ args' = c
    /\ pre' = doc
    /\ res' = r
    /\ doc' = IF r.ok THEN r.val ELSE doc

\* One call on a freshly drawn document: the operations are pure functions
\* of their arguments, so the document drawn stays as it is.
Evaluate(name, c, r) ==
    /\ op = "init"
    /\ op' = name
    /\ args' = c
    /\ pre' = doc
    /\ res' = r
    /\ doc' = doc

UpdateWhere ==
    \E c \in UpdateCalls :
        Apply("update_where", c,
              jsonb_array_update_where(doc, c.path, c.key, c.val, c.src))

DeleteWhere ==
    \E c \in DeleteCalls :
        Apply("delete_where", c,
              jsonb_array_delete_where(doc, c.path, c.key, c.val))

InsertWhere ==
    \E c \in InsertCalls :
        /\ (Get(doc, c.path) # None /\ Get(doc, c.path).t = "arr")
           => Len(Get(doc, c.path).v) < MaxArrLen
        /\ Apply("insert_where", c,
                 jsonb_array_insert_where(doc, c.path, c.src, c.key, c.order))

Next == UpdateWhere \/ DeleteWhere \/ InsertWhere

Spec == Init /\ [][Next]_vars

-----------------------------------------------------------------------------
(* Properties of the array surgery *)

\* The positions (1-based) of the elements whose field key equals val.
Matching(items, key, val) ==
    {i \in 1..Len(items) : Get(items[i], key) = val}

FirstOf(S) == CHOOSE i \in S : \A j \in S : i <= j

\* r is e with every key of patch overwritten or added, and nothing else.
IsShallowMerge(r, e, patch) ==
    /\ DOMAIN r = DOMAIN e \cup DOMAIN patch
    /\ \A k \in DOMAIN r : r[k] = IF k \in DOMAIN patch THEN patch[k] ELSE e[k]

HasArray(target, path) ==
    Get(target, path) # None /\ Get(target, path).t = "arr"

\* after is before except for the array under path, which is items.
OnlyArrayChanged(before, after, path, items) ==
    /\ after.t = "obj"
    /\ DOMAIN after.v = DOMAIN before.v
    /\ \A f \in DOMAIN before.v \ {path} : after.v[f] = before.v[f]
    /\ after.v[path] = Arr(items)

\* C1: update_first_match on a document whose field holds an Array, with an
\* Object patch within the depth limit, succeeds and returns the input with
\* only the first matching element replaced by the shallow merge of the patch
\* into it; without a match the input is returned unchanged.
C1_UpdateFirstMatch ==
    (/\ op = "update_where"
     /\ HasArray(pre, args.path)
     /\ args.src.t = "obj"
     /\ get_max_depth(args.src) <= MAX_JSONB_DEPTH)
    => /\ res.ok
       /\ LET A == pre.v[args.path].v
              M == Matching(A, args.key, args.val)
          IN  IF M = {} THEN res.val = pre
              ELSE /\ HasArray(res.val, args.path)
                   /\ LET B == res.val.v[args.path].v
                          f == FirstOf(M)
                      IN  /\ OnlyArrayChanged(pre, res.val, args.path, B)
                          /\ Len(B) = Len(A)
                          /\ \A i \in 1..Len(A) : i # f => B[i] = A[i]
                          /\ B[f].t = "obj"
                          /\ IsShallowMerge(B[f].v, A[f].v, args.src.v)

\* Two elements match, the first is not at the head, and the patch changed it.
C1_Witness ==
    /\ op = "update_where"
    /\ res.ok
    /\ HasArray(pre, args.path)
    /\ LET M == Matching(pre.v[args.path].v, args.key, args.val)
       IN  Cardinality(M) >= 2 /\ FirstOf(M) > 1
    /\ res.val # pre
    /\ \E k \in DOMAIN args.src.v :
           \E e \in {pre.v[args.path].v[i] : i \in 1..Len(pre.v[args.path].v)} :
               Get(e, args.key) = args.val /\ Get(e, k) \notin {None, args.src.v[k]}

\* C7: delete_first_match never fails, and returns its input unchanged when
\* the document is not an Object, the field is absent or not an Array, or no
\* element matches.
C7_DeleteNoOp ==
    op = "delete_where"
    => /\ res.ok
       /\ (\/ pre.t # "obj"
           \/ args.path \notin DOMAIN pre.v
           \/ pre.v[args.path].t # "arr"
           \/ Matching(pre.v[args.path].v, args.key, args.val) = {})
          => res.val = pre

\* A delete addressed at a field that is absent from an Object document.
C7_Witness ==
    /\ op = "delete_where"
    /\ pre.t = "obj"
    /\ args.path \notin DOMAIN pre.v
    /\ res.ok
    /\ res.val = pre

\* C8: with at least one matching element, delete_first_match removes exactly
\* the first one; the other elements keep their values and order and every
\* other field is unchanged.
C8_DeleteFirst ==
    (/\ op = "delete_where"
     /\ HasArray(pre, args.path)
     /\ Matching(pre.v[args.path].v, args.key, args.val) # {})
    => /\ res.ok
       /\ HasArray(res.val, args.path)
       /\ LET A == pre.v[args.path].v
              B == res.val.v[args.path].v
              f == FirstOf(Matching(A, args.key, args.val))
          IN  /\ OnlyArrayChanged(pre, res.val, args.path, B)
              /\ Len(B) = Len(A) - 1
              /\ \A i \in 1..Len(B) : B[i] = IF i < f THEN A[i] ELSE A[i + 1]

\* Two elements match and elements follow the first match.
C8_Witness ==
    /\ op = "delete_where"
    /\ HasArray(pre, args.path)
    /\ LET A == pre.v[args.path].v
           M == Matching(A, args.key, args.val)
       IN  /\ Cardinality(M) >= 2
           /\ FirstOf(M) > 1
           /\ Len(res.val.v[args.path].v) = Len(A) - 1

-----------------------------------------------------------------------------
(* A feed kept sorted: inserts under one sort key and one sort order *)

\* Longest feed the callers build.
MaxSortLen == 3

SortValues == {Null, Bool(TRUE), I64(1), I64(2), F64(2), F64(3), Str("a"),
               Str("b"), EmptyObj, Arr(<<>>)}

\* The feed's sort key and order: the key the elements carry under every
\* order, or no key (the order is then never read).
Feeds == {<<"ts", so>> : so \in {NoStr, "ASC", "asc", "DESC", "up"}}
         \cup {<<NoStr, NoStr>>}

InitSorted ==
    /\ doc \in {Obj([meta |-> I64(7)]), Obj([items |-> Arr(<<>>)])}
    /\ pre = doc
    /\ op = "init"
    /\ \E f \in Feeds : args = Call("items", f[1], None, None, f[2])
    /\ res = Ok(doc)

\* Every insert uses the feed's sort key and sort order, held in args.
InsertSorted ==
    \E e \in {Obj([ts |-> x]) : x \in SortValues}
              \cup {Obj([id |-> I64(1)]), I64(1), E2} :
        /\ Get(doc, "items") # None => Len(doc.v["items"].v) < MaxSortLen
        /\ Apply("insert_where", Call("items", args.key, None, e, args.order),
                 jsonb_array_insert_where(doc, "items", e, args.key, args.order))

\* The element matched first is deleted and fed back in under the feed's
\* sort key and order: jsonb_array_delete_where, then
\* jsonb_array_insert_where on its result.  args.val is the match value,
\* args.src the key matched on.
DeleteAndReinsert ==
    \E mk \in {"id", "ts"}, mv \in SortValues :
        /\ Get(doc, "items") # None
        /\ Get(doc, "items").t = "arr"
        /\ find_element_by_match(doc.v["items"].v, mk, mv) # NoIdx
        /\ LET idx == find_element_by_match(doc.v["items"].v, mk, mv)
               e == doc.v["items"].v[idx + 1]
               deleted == jsonb_array_delete_where(doc, "items", mk, mv)
           IN  Apply("delete_reinsert",
                     Call("items", args.key, mv, Str(mk), args.order),
                     jsonb_array_insert_where(deleted.val, "items", e,
                                              args.key, args.order))

NextSorted == InsertSorted \/ DeleteAndReinsert

SpecSorted == InitSorted /\ [][NextSorted]_vars

\* The order Null < Bool < Number < String the feed is kept in: false < true,
\* numbers by value, strings lexicographically; containers come last and are
\* all equal.
KindRank(val) ==
    CASE val.t = "null" -> 0
      [] val.t = "bool" -> 1
      [] val.t \in {"int", "float"} -> 2
      [] val.t = "str" -> 3
      [] OTHER -> 4

WithinKind(val) ==
    CASE val.t = "bool" -> IF val.v THEN 1 ELSE 0
      [] val.t = "int" -> 2 * val.v
      [] val.t = "float" -> val.v
      [] val.t = "str" -> StrRank(val.v)
      [] OTHER -> 0

OrdersBefore(a, b) ==
    \/ KindRank(a) < KindRank(b)
    \/ KindRank(a) = KindRank(b) /\ WithinKind(a) < WithinKind(b)

\* No keyed element of items is followed by a keyed element that orders
\* before it (ASC) or after it (DESC).
SortedOn(items, key, ascending) ==
    \A i, j \in 1..Len(items) :
        (i < j /\ Get(items[i], key) # None /\ Get(items[j], key) # None)
        => IF ascending
           THEN ~OrdersBefore(Get(items[j], key), Get(items[i], key))
           ELSE ~OrdersBefore(Get(items[i], key), Get(items[j], key))

\* C5: after every insert_sorted of a sequence under one sort key and order,
\* the elements that have the key are non-decreasing (ASC) or non-increasing
\* (DESC) under compare_values, whatever keyless elements lie between them.
C5_InsertKeepsSorted ==
    op = "insert_where"
    => /\ res.ok
       /\ SortedOn(doc.v["items"].v, args.key,
                   args.order \in {NoStr, "ASC", "asc"})

\* A full feed with keyed elements of three kinds around a keyless one, the
\* last insert having gone in front of an existing element.
C5_Witness ==
    /\ op = "insert_where"
    /\ Len(doc.v["items"].v) = MaxSortLen
    /\ \E i \in 1..Len(doc.v["items"].v) : Get(doc.v["items"].v[i], "ts") = None
    /\ Cardinality({Get(doc.v["items"].v[i], "ts").t :
                       i \in 1..Len(doc.v["items"].v)} \ {"none"}) >= 2
    /\ doc.v["items"].v[Len(doc.v["items"].v)] # args.src

-----------------------------------------------------------------------------
(* The integer search on its own: arrays on both sides of the threshold *)

\* Longest array searched.
MaxSearchLen == 41

Hit == Obj([id |-> I64(7)])

\* Elements that do not hold the integer 7 under "id".
Filler(n) ==
    CASE n % 5 = 0 -> Obj([id |-> I64(100 + n)])
      [] n % 5 = 1 -> Obj([other |-> I64(7)])
      [] n % 5 = 2 -> Obj([id |-> F64(14)])
      [] n % 5 = 3 -> Obj([id |-> Str("a")])
      [] OTHER -> I64(7)

\* An array of len elements with Hit at positions p and q (0: nowhere).
SearchArray(len, p, q, fill) ==
    [i \in 1..len |-> IF i = p \/ i = q THEN Hit ELSE Filler(i + fill)]

SearchArrays ==
    {SearchArray(len, p, q, fill) :
        len \in {0, 1, 7, 9} \cup ((SEARCH_THRESHOLD - 2)..MaxSearchLen),
        p \in 0..MaxSearchLen, q \in {0, MaxSearchLen - 3},
        fill \in 0..1}

InitSearch ==
    /\ doc \in {Arr(a) : a \in SearchArrays}
    /\ pre = doc
    /\ op = "init"
    /\ args = NoArgs
    /\ res = Ok(doc)

\* res.val is the Option<usize> returned.
Search ==
    \E key \in {"id", "other"}, target \in {7, 100 + MaxSearchLen} :
        Evaluate("find_by_int_id_optimized",
                 Call(NoStr, key, I64(target), None, NoStr),
                 Ok(find_by_int_id_optimized(doc.v, key, target)))

NextSearch == Search

SpecSearch == InitSearch /\ [][NextSearch]_vars

\* C6: the chunk-unrolled search returns what the plain left-to-right scan
\* returns: the index of the first element whose field is an integer equal to
\* the target, or None.
C6_SearchParity ==
    op = "find_by_int_id_optimized"
    => /\ res.val = find_by_int_id_scalar(pre.v, args.key, args.val.v)
       /\ LET M == {i \in 1..Len(pre.v) :
                       Get(pre.v[i], args.key) = args.val}
          IN  res.val = IF M = {} THEN NoIdx ELSE FirstOf(M) - 1

\* A long array whose length is no multiple of the chunk size, with the first
\* hit in the remainder.
C6_Witness ==
    /\ op = "find_by_int_id_optimized"
    /\ Len(pre.v) >= SEARCH_THRESHOLD
    /\ Len(pre.v) % UNROLL # 0
    /\ res.val >= (Len(pre.v) \div UNROLL) * UNROLL

-----------------------------------------------------------------------------
(* The depth guard on its own: every small tree against every limit *)

\* Largest limit passed to validate_depth.
MaxLimit == 4

\* Levels generated exhaustively for the trees handed to the guard.
TreeLevels == 2

\* Objects over the keys a, b and arrays of up to two elements over vals.
Containers(vals) ==
    {Arr(<<>>), EmptyObj}
    \cup {Arr(<<x>>) : x \in vals}
    \cup {Arr(<<x, y>>) : x \in vals, y \in {Null} \cup {z \in vals : z.t = "obj"}}
    \cup {Obj([a |-> x]) : x \in vals}
    \cup {Obj([a |-> x, b |-> y]) : x \in {I64(1)} \cup {z \in vals : z.t = "arr"},
                                    y \in vals}

RECURSIVE Trees(_)
Trees(n) ==
    IF n = 0 THEN {Null, I64(1)}
    ELSE Trees(n - 1) \cup Containers(Trees(n - 1))

\* n levels of single-element arrays around a scalar.
RECURSIVE NestedArr(_)
NestedArr(n) == IF n = 0 THEN Str("a") ELSE Arr(<<NestedArr(n - 1)>>)

\* Objects and arrays alternating, n levels deep, with shallow siblings.
RECURSIVE Mixed(_)
Mixed(n) ==
    IF n = 0 THEN EmptyObj
    ELSE IF n % 2 = 0 THEN Obj([a |-> I64(1), b |-> Mixed(n - 1)])
    ELSE Arr(<<Null, Mixed(n - 1), EmptyObj>>)

InitDepth ==
    /\ doc \in Trees(TreeLevels)
               \cup {Nested(n) : n \in 0..(MaxLimit + 2)}
               \cup {NestedArr(n) : n \in 0..(MaxLimit + 2)}
               \cup {Mixed(n) : n \in 0..(MaxLimit + 2)}
    /\ pre = doc
    /\ op = "init"
    /\ args = NoArgs
    /\ res = Ok(doc)

\* res.ok is Ok(()) against the depth-exceeded error; args.val is max_depth.
ValidateDepth ==
    \E m \in 0..MaxLimit :
        Evaluate("validate_depth", Call(NoStr, NoStr, I64(m), None, NoStr),
                 IF validate_depth(doc, m) THEN Ok(doc)
                 ELSE Err(doc, "nesting too deep"))

NextDepth == ValidateDepth

SpecDepth == InitDepth /\ [][NextDepth]_vars

\* The number of container hops on the longest way from the root to a node.
RECURSIVE Hops(_)
Hops(val) ==
    IF val.t \notin {"obj", "arr"} THEN 0
    ELSE LET kids == IF val.t = "arr"
                     THEN {val.v[i] : i \in 1..Len(val.v)}
                     ELSE {val.v[k] : k \in DOMAIN val.v}
         IN  IF kids = {} THEN 0
             ELSE 1 + (CHOOSE h \in {Hops(x) : x \in kids} :
                          \A x \in kids : Hops(x) <= h)

\* C10: validate_depth(v, m) is Ok exactly when get_max_depth(v) <= m and the
\* depth-exceeded error otherwise; one level per container hop, Arrays and
\* Objects alike, the root at depth 0.
C10_DepthThreshold ==
    op = "validate_depth"
    => /\ res.ok <=> get_max_depth(pre) <= args.val.v
       /\ ~res.ok <=> get_max_depth(pre) > args.val.v
       /\ ~res.ok => res.err = "nesting too deep"
       /\ get_max_depth(pre) = Hops(pre)

\* A document nested to exactly the limit plus one, through both container
\* kinds, is refused.
C10_Witness ==
    /\ op = "validate_depth"
    /\ args.val.v >= 2
    /\ get_max_depth(pre) = args.val.v + 1
    /\ pre.t = "arr"
    /\ \E i \in 1..Len(pre.v) : pre.v[i].t = "obj" /\ pre.v[i].v # EmptyMap
    /\ ~res.ok

-----------------------------------------------------------------------------
(* Single calls: every operation that can fail, applied to listed documents *)

Leaves == {I64(1), I64(2), Arr(<<I64(1)>>)}

\* The Objects over the keys a and b with values from vals.
ObjectsOver(vals) ==
    {EmptyObj}
    \cup {Obj([a |-> x]) : x \in vals}
    \cup {Obj([b |-> x]) : x \in vals}
    \cup {Obj([a |-> x, b |-> y]) : x \in vals, y \in vals}

Level1 == ObjectsOver(Leaves)

\* Objects two levels deep, a target three Objects deep with a sibling at
\* every level, targets that are no Objects and one that is too deep.
MergeTargets ==
    ObjectsOver(Leaves \cup Level1)
    \cup {Obj([a |-> I64(1),
               b |-> Obj([a |-> I64(1),
                          c |-> Obj([a |-> I64(1),
                                     b |-> Obj([a |-> I64(1)])])])]),
          I64(5), Arr(<<>>), TooDeep}

MergeSources ==
    Level1
    \cup {Obj([a |-> x]) : x \in Level1}
    \cup {Obj([b |-> Obj([c |-> Obj([a |-> I64(2), c |-> I64(2)])])])}
    \cup {Str("a"), Arr(<<EmptyObj>>), TooDeep, AtLimit}

BatchSpec(mv, updates) == Obj([match_value |-> mv, updates |-> updates])

BatchCalls ==
    {Call("items", "id", None, Arr(specs), NoStr) :
        specs \in {<<>>,
                   <<BatchSpec(I64(1), Obj([ts |-> Str("a")]))>>,
                   <<BatchSpec(I64(2), EmptyObj),
                     BatchSpec(Str("a"), EmptyObj),
                     BatchSpec(I64(1), Str("a")),
                     I64(1),
                     BatchSpec(I64(1), Obj([ts |-> Str("a")]))>>,
                   <<BatchSpec(I64(1), TooDeep)>>,
                   <<BatchSpec(I64(2), Obj([tag |-> I64(3)])),
                     BatchSpec(I64(9), Obj([ts |-> Str("a")])),
                     BatchSpec(I64(1), Obj([ts |-> Str("b"), tag |-> I64(4)]))>>,
                   <<BatchSpec(I64(1), Obj([ts |-> Str("b")])),
                     BatchSpec(I64(2), Obj([tag |-> I64(3)])),
                     BatchSpec(I64(1), Obj([tag |-> I64(4)]))>>}}
    \cup {Call("items", "id", None, EmptyObj, NoStr),
          Call("meta", "id", None, Arr(<<>>), NoStr)}

\* An array with two elements of the same id, a float id and an element that
\* is not an Object.

InitCalls ==
    /\ doc \in MergeTargets \cup SeedDocs
               \cup {Obj([items |-> Arr(<<E2, E4, E5, E1, E3>>),
                          meta |-> I64(7)])}
    /\ pre = doc
    /\ op = "init"
    /\ args = NoArgs
    /\ res = Ok(doc)

\* args.path is the key path, args.src the source.
MergeShallow ==
    \E source \in MergeSources :
        Evaluate("merge_shallow", Call(<<>>, NoStr, None, source, NoStr),
                 jsonb_merge_shallow(doc, source))

MergeAtPath ==
    \E source \in MergeSources,
       path \in {<<>>, <<"a">>, <<"b">>, <<"a", "b">>, <<"b", "c">>,
                 <<"c", "a", "b">>, <<"a", "c", "b">>} :
        Evaluate("merge_at_path", Call(path, NoStr, None, source, NoStr),
                 jsonb_merge_at_path(doc, source, path))

\* The sources include the target itself.
DeepMerge ==
    \E source \in MergeSources \cup {doc} :
        Evaluate("deep_merge", Call(<<>>, NoStr, None, source, NoStr),
                 jsonb_deep_merge(doc, source))

CallUpdateWhere ==
    \E c \in UpdateCalls :
        Evaluate("update_where", c,
                 jsonb_array_update_where(doc, c.path, c.key, c.val, c.src))

CallUpdateBatch ==
    \E c \in BatchCalls :
        Evaluate("update_where_batch", c,
                 jsonb_array_update_where_batch(doc, c.path, c.key, c.src))

CallInsertWhere ==
    \E c \in InsertCalls :
        Evaluate("insert_where", c,
                 jsonb_array_insert_where(doc, c.path, c.src, c.key, c.order))

SmartPatchArray ==
    \E c \in UpdateCalls :
        Evaluate("smart_patch_array", c,
                 jsonb_smart_patch_array(doc, c.src, c.path, c.key, c.val))

NextCalls ==
    \/ MergeShallow
    \/ MergeAtPath
    \/ DeepMerge
    \/ CallUpdateWhere
    \/ CallUpdateBatch
    \/ CallInsertWhere
    \/ SmartPatchArray

SpecCalls == InitCalls /\ [][NextCalls]_vars

-----------------------------------------------------------------------------
(* Properties of the merges *)

\* The reference recursive merge.
RECURSIVE RefDeepMerge(_, _)
RefDeepMerge(target, source) ==
    IF target.t = "obj" /\ source.t = "obj"
    THEN Obj([k \in DOMAIN target.v \cup DOMAIN source.v |->
                 IF k \notin DOMAIN source.v THEN target.v[k]
                 ELSE IF k \notin DOMAIN target.v THEN source.v[k]
                 ELSE IF target.v[k].t = "obj" /\ source.v[k].t = "obj"
                      THEN RefDeepMerge(target.v[k], source.v[k])
                      ELSE source.v[k]])
    ELSE source

\* C2: deep_merge_recursive equals the reference recursive merge: on two
\* Objects the keys are united, a key only in target keeps its value, a key
\* only in source takes source's value, a key in both is merged recursively
\* when both values are Objects and otherwise takes source's value; when not
\* both are Objects the result is source.  jsonb_deep_merge returns exactly
\* that whenever it succeeds.
C2_DeepMergeReference ==
    op = "deep_merge"
    => LET m == deep_merge_recursive(pre, args.src)
       IN  /\ m = RefDeepMerge(pre, args.src)
           /\ res.ok => res.val = m
           /\ (pre.t = "obj" /\ args.src.t = "obj")
              => /\ m.t = "obj"
                 /\ DOMAIN m.v = DOMAIN pre.v \cup DOMAIN args.src.v
                 /\ \A k \in DOMAIN pre.v \ DOMAIN args.src.v :
                        m.v[k] = pre.v[k]
                 /\ \A k \in DOMAIN args.src.v \ DOMAIN pre.v :
                        m.v[k] = args.src.v[k]
                 /\ \A k \in DOMAIN args.src.v \cap DOMAIN pre.v :
                        m.v[k] = IF pre.v[k].t = "obj" /\ args.src.v[k].t = "obj"
                                 THEN deep_merge_recursive(pre.v[k],
                                                           args.src.v[k])
                                 ELSE args.src.v[k]
           /\ ~(pre.t = "obj" /\ args.src.t = "obj") => m = args.src

\* A merge that recursed two levels and kept a sibling of the nested Object
\* while replacing a value below it.
C2_Witness ==
    /\ op = "deep_merge"
    /\ res.ok
    /\ pre.t = "obj"
    /\ args.src.t = "obj"
    /\ \E k \in DOMAIN pre.v \cap DOMAIN args.src.v :
           /\ pre.v[k].t = "obj"
           /\ args.src.v[k].t = "obj"
           /\ DOMAIN pre.v[k].v \ DOMAIN args.src.v[k].v # {}
           /\ \E j \in DOMAIN pre.v[k].v \cap DOMAIN args.src.v[k].v :
                  pre.v[k].v[j] # args.src.v[k].v[j]
    /\ DOMAIN pre.v \ DOMAIN args.src.v # {}
    /\ res.val \notin {pre, args.src}

\* The key set is the union, source's keys carry source's values and the
\* other keys of target keep theirs.
ShallowMerged(r, target, source) ==
    /\ r.ok
    /\ r.val.t = "obj"
    /\ IsShallowMerge(r.val.v, target.v, source.v)

\* C3 as stated: for all Objects target and source the result of
\* merge_shallow is the shallow merge.
C3_Original ==
    (op = "merge_shallow" /\ pre.t = "obj" /\ args.src.t = "obj")
    => ShallowMerged(res, pre, args.src)

\* C3 (amended): for all Objects target and source with source nested no
\* deeper than the depth limit, the result of merge_shallow is an Object
\* whose key set is the union of the two key sets, every key of source
\* carrying source's value and every other key of target its unchanged value;
\* a deeper source is refused with the depth-exceeded error.
C3_MergeShallow ==
    (op = "merge_shallow" /\ pre.t = "obj" /\ args.src.t = "obj")
    => IF get_max_depth(args.src) <= MAX_JSONB_DEPTH
       THEN ShallowMerged(res, pre, args.src)
       ELSE ~res.ok /\ res.err = "nesting too deep"

\* A nested Object of target replaced wholesale by a nested Object of source,
\* next to a key of target that source does not mention.
C3_Witness ==
    /\ op = "merge_shallow"
    /\ res.ok
    /\ pre.t = "obj"
    /\ args.src.t = "obj"
    /\ DOMAIN pre.v \ DOMAIN args.src.v # {}
    /\ \E k \in DOMAIN pre.v \cap DOMAIN args.src.v :
           /\ pre.v[k].t = "obj"
           /\ args.src.v[k].t = "obj"
           /\ DOMAIN pre.v[k].v \ DOMAIN args.src.v[k].v # {}
           /\ res.val.v[k] = args.src.v[k]

\* The value reached from val by following keys, or None.
RECURSIVE NavKeys(_, _)
NavKeys(val, keys) ==
    IF keys = <<>> THEN val
    ELSE IF Get(val, Head(keys)) = None THEN None
    ELSE NavKeys(Get(val, Head(keys)), Tail(keys))

\* C4: a successful merge_at_path with a non-empty path and an Object source
\* leaves at the path the shallow merge of source into the Object that was
\* there, and at the root and at every Object along the path every key other
\* than the next path key keeps its value and no key is added.
C4_MergeAtPathFrame ==
    (op = "merge_at_path" /\ args.path # <<>> /\ args.src.t = "obj" /\ res.ok)
    => /\ LET old == NavKeys(pre, args.path)
              new == NavKeys(res.val, args.path)
          IN  /\ new # None
              /\ new.t = "obj"
              /\ old # None => old.t = "obj"
              /\ IsShallowMerge(new.v,
                                IF old = None THEN EmptyMap ELSE old.v,
                                args.src.v)
       /\ \A i \in 0..(Len(args.path) - 1) :
              LET before == NavKeys(pre, SubSeq(args.path, 1, i))
                  after == NavKeys(res.val, SubSeq(args.path, 1, i))
                  hop == args.path[i + 1]
              IN  /\ after # None
                  /\ after.t = "obj"
                  /\ before # None => before.t = "obj"
                  /\ DOMAIN after.v =
                         (IF before = None THEN {} ELSE DOMAIN before.v)
                         \cup {hop}
                  /\ before # None =>
                         \A k \in DOMAIN before.v \ {hop} :
                             after.v[k] = before.v[k]

\* A two-hop merge into an existing Object that has keys source does not
\* mention, with siblings at the root and along the path.
C4_Witness ==
    /\ op = "merge_at_path"
    /\ res.ok
    /\ Len(args.path) = 2
    /\ args.src.t = "obj"
    /\ NavKeys(pre, args.path) # None
    /\ DOMAIN NavKeys(pre, args.path).v \ DOMAIN args.src.v # {}
    /\ DOMAIN args.src.v # {}
    /\ DOMAIN pre.v \ {args.path[1]} # {}
    /\ DOMAIN pre.v[args.path[1]].v \ {args.path[2]} # {}
    /\ res.val # pre

\* C9: an operation that ends in an error has written nothing to its working
\* copy of the target before the error point.
C9_NoPartialMutation ==
    (/\ op \in {"merge_shallow", "merge_at_path", "deep_merge", "update_where",
                "update_where_batch", "insert_where"}
     /\ ~res.ok)
    => res.val = pre

\* merge_at_path failing at the last of three hops.
C9_Witness ==
    /\ op = "merge_at_path"
    /\ ~res.ok
    /\ Len(args.path) >= 2
    /\ args.src.t = "obj"
    /\ pre.t = "obj"
    /\ res.err = "cannot merge into non-object"

\* C11: jsonb_deep_merge is gated by the depth guard: whatever the target, a
\* source nested deeper than MAX_JSONB_DEPTH fails with the depth-exceeded
\* error with nothing merged, and a source nested at most MAX_JSONB_DEPTH
\* deep returns deep_merge_recursive(target, source).
C11_DeepMergeGated ==
    op = "deep_merge"
    => IF get_max_depth(args.src) > MAX_JSONB_DEPTH
       THEN /\ ~res.ok
            /\ res.err = "nesting too deep"
            /\ res.val = pre
       ELSE /\ res.ok
            /\ res.val = deep_merge_recursive(pre, args.src)

\* A source one level too deep refused on an Object target it would have
\* changed.
C11_Witness ==
    /\ op = "deep_merge"
    /\ get_max_depth(args.src) = MAX_JSONB_DEPTH + 1
    /\ pre.t = "obj"
    /\ args.src.t = "obj"
    /\ deep_merge_recursive(pre, args.src) # pre
    /\ ~res.ok

\* The deepest patch a call hands over: the source or updates argument, or
\* for the batch update the updates of its specs.
PatchTooDeep ==
    IF op = "update_where_batch"
    THEN /\ args.src.t = "arr"
         /\ \E i \in 1..Len(args.src.v) :
                LET updates == Get(args.src.v[i], "updates")
                IN  updates # None /\ get_max_depth(updates) > MAX_JSONB_DEPTH
    ELSE get_max_depth(args.src) > MAX_JSONB_DEPTH

\* C12: every operation that merges an externally supplied patch, update or
\* source into a target (merge_shallow, merge_at_path, deep_merge, the update
\* of the first match, the batch update, smart_patch_array) rejects a value
\* nested deeper than MAX_JSONB_DEPTH: the call fails and nothing of the
\* value reaches the target.
C12_GuardOnEveryMerge ==
    (/\ op \in {"merge_shallow", "merge_at_path", "deep_merge", "update_where",
                "update_where_batch", "smart_patch_array"}
     /\ PatchTooDeep)
    => ~res.ok /\ res.val = pre

-----------------------------------------------------------------------------
(* Path texts handed to parse_path *)

\* Longest text drawn character by character.
MaxTextLen == 4

\* Most segments in a path written out from segments.
MaxSegs == 3

Alphabet == {"a", "b", ".", "[", "]", "0", "1", "+"}

Text(chars) == [t |-> "text", v |-> chars]

\* Segments as a caller writes them: a Key carries its characters.
WrittenSegments ==
    {Key(<<"a">>), Key(<<"a", "b">>), Key(<<"b", "0">>),
     Index(0), Index(1), Index(10)}

\* orders[0].items[1].price in the small alphabet.
MixedPath == <<Key(<<"a", "b">>), Index(0), Key(<<"a">>), Index(1),
               Key(<<"b">>)>>

WellFormedPaths ==
    UNION {[1..n -> WrittenSegments] : n \in 1..MaxSegs} \cup {MixedPath}

\* The decimal digits of n.
RECURSIVE DecimalText(_)
DecimalText(n) ==
    IF n < 10 THEN <<Digits[n + 1]>>
    ELSE DecimalText(n \div 10) \o <<Digits[(n % 10) + 1]>>

\* The text of a path: keys separated by dots, indexes in brackets.
RECURSIVE Render(_, _)
Render(p, i) ==
    IF i > Len(p) THEN <<>>
    ELSE (IF p[i].t = "Index" THEN <<"[">> \o DecimalText(p[i].v) \o <<"]">>
          ELSE (IF i > 1 THEN <<".">> ELSE <<>>) \o p[i].v)
         \o Render(p, i + 1)

RenderedText == [p \in WellFormedPaths |-> Render(p, 1)]

InitParse ==
    /\ doc \in {Text(chars) :
                   chars \in UNION {[1..n -> Alphabet] : n \in 0..MaxTextLen}}
               \cup {Text(RenderedText[p]) : p \in WellFormedPaths}
    /\ pre = doc
    /\ op = "init"
    /\ args = NoArgs
    /\ res = Ok(doc)

ParsePath == Evaluate("parse_path", NoArgs, parse_path(doc.v))

NextParse == ParsePath

SpecParse == InitParse /\ [][NextParse]_vars

\* The characters of a token joined into the name of a key.
RECURSIVE Join(_)
Join(chars) == IF chars = <<>> THEN "" ELSE Head(chars) \o Join(Tail(chars))

\* The segments parse_path owes for a path as written.
Expected(p) ==
    [i \in 1..Len(p) |-> IF p[i].t = "Key" THEN Key(Join(p[i].v)) ELSE p[i]]

\* C13: on well-formed text parse_path returns the segments in textual
\* order, each bare token as Key(token) and each bracketed unsigned integer
\* as Index(n), none dropped, duplicated or reordered; a single bare key
\* gives a one-element path.
C13_ParseWellFormed ==
    op = "parse_path"
    => \A p \in WellFormedPaths :
           RenderedText[p] = pre.v => res = PathOk(Expected(p))

\* The mixed path of five segments parsed back.
C13_Witness ==
    /\ op = "parse_path"
    /\ pre.v = RenderedText[MixedPath]
    /\ res.ok
    /\ Len(res.segments) = 5
    /\ res.segments[1] = Key("ab")
    /\ res.segments[2] = Index(0)

\* sub occurs in chars.
HasSub(chars, sub) ==
    \E i \in 1..(Len(chars) - Len(sub) + 1) :
        SubSeq(chars, i, i + Len(sub) - 1) = sub

\* The texts between an opening bracket and the first closing bracket after
\* it.
BracketBodies(chars) ==
    {SubSeq(chars, i + 1, j - 1) :
        <<i, j>> \in {ij \in (1..Len(chars)) \X (1..Len(chars)) :
                        /\ ij[1] < ij[2]
                        /\ chars[ij[1]] = "["
                        /\ chars[ij[2]] = "]"
                        /\ \A k \in (ij[1] + 1)..(ij[2] - 1) : chars[k] # "]"}}

AllDigits(body) ==
    body # <<>> /\ \A i \in 1..Len(body) : IsDigit(body[i])

\* A closing bracket met while no opening bracket is open.
RECURSIVE UnmatchedClose(_, _, _)
UnmatchedClose(chars, i, open) ==
    IF i > Len(chars) THEN FALSE
    ELSE IF chars[i] = "[" THEN UnmatchedClose(chars, i + 1, open + 1)
    ELSE IF chars[i] = "]"
         THEN open = 0 \/ UnmatchedClose(chars, i + 1, open - 1)
    ELSE UnmatchedClose(chars, i + 1, open)

\* An opening bracket with no closing bracket after it.
UnclosedOpen(chars) ==
    \E i \in 1..Len(chars) :
        chars[i] = "[" /\ \A j \in (i + 1)..Len(chars) : chars[j] # "]"

Refused == ~res.ok /\ res.segments = <<>>

\* C14 as stated: parse_path returns an error and no segment list for every
\* text that has two consecutive dots, is empty, has an empty bracket body,
\* has a bracket body that is not an unsigned integer, or has a closing
\* bracket not preceded by a matching opening one.
C14_Original ==
    (/\ op = "parse_path"
     /\ \/ pre.v = <<>>
        \/ HasSub(pre.v, <<".", ".">>)
        \/ HasSub(pre.v, <<"[", "]">>)
        \/ \E body \in BracketBodies(pre.v) : ~AllDigits(body)
        \/ UnmatchedClose(pre.v, 1, 0))
    => Refused

\* C14 (amended): parse_path returns an error and no segment list for every
\* text that has two consecutive dots, is empty, has an empty bracket body,
\* has a bracket body that is neither a run of decimal digits nor a '+'
\* followed by a run of decimal digits, or has a closing bracket not
\* preceded by a matching opening one.
C14_ParseErrors ==
    (/\ op = "parse_path"
     /\ \/ pre.v = <<>>
        \/ HasSub(pre.v, <<".", ".">>)
        \/ HasSub(pre.v, <<"[", "]">>)
        \/ \E body \in BracketBodies(pre.v) :
               /\ ~AllDigits(body)
               /\ ~(body # <<>> /\ Head(body) = "+" /\ AllDigits(Tail(body)))
        \/ UnmatchedClose(pre.v, 1, 0))
    => Refused

\* A stray closing bracket after a well-formed index refused.
C14_Witness ==
    /\ op = "parse_path"
    /\ UnmatchedClose(pre.v, 1, 0)
    /\ ~HasSub(pre.v, <<".", ".">>)
    /\ BracketBodies(pre.v) # {}
    /\ \A body \in BracketBodies(pre.v) : AllDigits(body)
    /\ Refused
    /\ res.err = "unexpected closing bracket"

\* C15: parse_path rejects every text with a leading dot, a trailing dot or
\* an opening bracket that has no closing bracket, and no successfully
\* parsed path comes from text with an unmatched bracket.
C15_RejectsDotsAndUnclosed ==
    op = "parse_path"
    => /\ (\/ (pre.v # <<>> /\ Head(pre.v) = ".")
           \/ (pre.v # <<>> /\ pre.v[Len(pre.v)] = ".")
           \/ UnclosedOpen(pre.v))
          => Refused
       /\ res.ok => ~UnclosedOpen(pre.v) /\ ~UnmatchedClose(pre.v, 1, 0)

-----------------------------------------------------------------------------
(* Documents navigated and set by path *)

\* Longest path handed to navigate_path and set_path.
MaxPathLen == 3

NavLeaves == {Null, I64(1)}
NavLevel1 == NavLeaves \cup Containers(NavLeaves)

NavDocs ==
    NavLevel1 \cup Containers(NavLevel1) \cup {Mixed(n) : n \in 0..MaxLimit}

NavPaths ==
    UNION {[1..n -> {Key("a"), Key("b"), Index(0), Index(1), Index(2)}] :
              n \in 0..MaxPathLen}

InitPath ==
    /\ doc \in NavDocs
    /\ pre = doc
    /\ op = "init"
    /\ args = NoArgs
    /\ res = Ok(doc)

\* args.path is the path; res.val is the Option returned.
NavigatePath ==
    \E path \in NavPaths :
        Evaluate("navigate_path", Call(path, NoStr, None, None, NoStr),
                 Ok(navigate_path(doc, path)))

\* args.src is the value set; res.val is the document as rewritten.
SetPath ==
    \E path \in NavPaths, value \in {Null, Obj([a |-> I64(9)])} :
        Evaluate("set_path", Call(path, NoStr, None, value, NoStr),
                 set_path(doc, path, value))

NextPath == NavigatePath \/ SetPath

SpecPath == InitPath /\ [][NextPath]_vars

\* segment lands on val: a Key on an Object holding the key, an Index on an
\* Array long enough.
Lands(val, segment) ==
    \/ segment.t = "Key" /\ val.t = "obj" /\ segment.v \in DOMAIN val.v
    \/ segment.t = "Index" /\ val.t = "arr" /\ segment.v < Len(val.v)

\* The value a path reaches, described from its last segment backwards.
RECURSIVE Reached(_, _)
Reached(val, path) ==
    IF path = <<>> THEN val
    ELSE LET parent == Reached(val, SubSeq(path, 1, Len(path) - 1))
             last == path[Len(path)]
         IN  IF parent = None \/ ~Lands(parent, last) THEN None
             ELSE IF last.t = "Key" THEN parent.v[last.v]
             ELSE parent.v[last.v + 1]

\* C16: navigate_path follows the segments in order and returns the value
\* reached exactly when every Key segment lands on an Object holding the key
\* and every Index segment on an Array with the index in bounds; on the first
\* mismatch it returns None, never an error, and the document is left as it
\* was.  For a single Key segment it agrees with direct object lookup.
C16_NavigateReaches ==
    op = "navigate_path"
    => /\ res.ok
       /\ doc = pre
       /\ res.val = Reached(pre, args.path)
       /\ res.val # None
          <=> \A i \in 1..Len(args.path) :
                  LET at == Reached(pre, SubSeq(args.path, 1, i - 1))
                  IN  at # None /\ Lands(at, args.path[i])
       /\ (Len(args.path) = 1 /\ args.path[1].t = "Key")
          => res.val = Get(pre, args.path[1].v)

\* Three segments through an Object, an Array and an Object down to a value.
C16_Witness ==
    /\ op = "navigate_path"
    /\ Len(args.path) = 3
    /\ args.path[1].t = "Key"
    /\ args.path[2].t = "Index"
    /\ args.path[3].t = "Key"
    /\ res.val # None
    /\ res.val = pre.v[args.path[1].v].v[args.path[2].v + 1].v[args.path[3].v]

\* C17: for every document, every non-empty path and every value, set_path
\* succeeds and navigate_path then finds the value at the path, whatever the
\* document held: a node of the wrong container type is replaced by an empty
\* container, missing keys are created, arrays are padded with Null up to
\* the index, and the final slot is overwritten.
C17_SetThenNavigate ==
    (op = "set_path" /\ args.path # <<>>)
    => /\ res.ok
       /\ navigate_path(res.val, args.path) = args.src
       /\ LET first == args.path[1]
          IN  IF first.t = "Key"
              THEN /\ res.val.t = "obj"
                   /\ DOMAIN res.val.v =
                          (IF pre.t = "obj" THEN DOMAIN pre.v ELSE {})
                          \cup {first.v}
                   /\ pre.t = "obj"
                      => \A k \in DOMAIN pre.v \ {first.v} :
                             res.val.v[k] = pre.v[k]
              ELSE /\ res.val.t = "arr"
                   /\ Len(res.val.v) =
                          Max(IF pre.t = "arr" THEN Len(pre.v) ELSE 0,
                              first.v + 1)
                   /\ \A k \in 1..Len(res.val.v) :
                          k # first.v + 1
                          => res.val.v[k] =
                                 IF pre.t = "arr" /\ k <= Len(pre.v)
                                 THEN pre.v[k] ELSE Null

\* A set through a scalar that had to become an Array padded with Null and
\* then an Object.
C17_Witness ==
    /\ op = "set_path"
    /\ res.ok
    /\ Len(args.path) = 3
    /\ args.path[1].t = "Key"
    /\ args.path[2] = Index(2)
    /\ args.path[3].t = "Key"
    /\ pre.t = "obj"
    /\ Get(pre, args.path[1].v) # None
    /\ Get(pre, args.path[1].v).t \notin {"arr", "obj"}
    /\ res.val.v[args.path[1].v].v[1] = Null
    /\ navigate_path(res.val, args.path) = args.src

\* source is structurally contained in target: they are equal, or both are
\* Objects and every key of source is a key of target whose value in source
\* is contained in its value in target.
RECURSIVE Contained(_, _)
Contained(source, target) ==
    \/ source = target
    \/ /\ source.t = "obj"
       /\ target.t = "obj"
       /\ DOMAIN source.v \subseteq DOMAIN target.v
       /\ \A k \in DOMAIN source.v : Contained(source.v[k], target.v[k])

\* C18: deep_merge is idempotent on structurally contained sources: merging
\* a value into itself gives the value back, and so does merging any source
\* structurally contained in the target.
C18_DeepMergeIdempotent ==
    (op = "deep_merge" /\ Contained(args.src, pre))
    => /\ deep_merge_recursive(pre, args.src) = pre
       /\ res.ok => res.val = pre

\* A source that is a strict part of the target, one nested Object deep,
\* merged without effect.
C18_Witness ==
    /\ op = "deep_merge"
    /\ Contained(args.src, pre)
    /\ args.src # pre
    /\ args.src.t = "obj"
    /\ \E k \in DOMAIN args.src.v :
           /\ args.src.v[k].t = "obj"
           /\ args.src.v[k] # pre.v[k]
           /\ args.src.v[k].v # EmptyMap
    /\ res.ok
    /\ res.val = pre

\* C19: merge_at_path with an empty path behaves exactly as merge_shallow at
\* the root: for every target and source the two calls fail together or
\* succeed together with equal results.
C19_EmptyPathIsShallow ==
    (op = "merge_at_path" /\ args.path = <<>>)
    => LET shallow == jsonb_merge_shallow(pre, args.src)
       IN  /\ res.ok = shallow.ok
           /\ res.ok => res.val = shallow.val

\* C20: merge_at_path with a non-empty path fails exactly when source is not
\* an Object or a value that already exists along the path is not an Object:
\* the root, the value under an intermediate path key, or the value already
\* under the final key; in every other case it succeeds.
C20_MergeAtPathFails ==
    (op = "merge_at_path" /\ args.path # <<>>)
    => (~res.ok
        <=> \/ args.src.t # "obj"
            \/ \E i \in 0..Len(args.path) :
                   LET at == NavKeys(pre, SubSeq(args.path, 1, i))
                   IN  at # None /\ at.t # "obj")

\* A walk stopped by a scalar stored under the first of several path keys.
C20_Witness ==
    /\ op = "merge_at_path"
    /\ Len(args.path) >= 2
    /\ args.src.t = "obj"
    /\ pre.t = "obj"
    /\ Get(pre, args.path[1]) # None
    /\ Get(pre, args.path[1]).t # "obj"
    /\ ~res.ok
    /\ res.err = "path navigation failed"

-----------------------------------------------------------------------------
(* Properties of the array operations called once *)

\* C21: the update of the first match fails, returning no document, when
\* the named field is absent from the document, when the field does not hold
\* an Array, or when the patch is not an Object; the patch is checked even
\* when no array element would match.
C21_UpdateFatalErrors ==
    op = "update_where"
    => LET array == Get(pre, args.path)
       IN  /\ array = None => ~res.ok /\ res.err = "path does not exist"
           /\ (array # None /\ array.t # "arr")
              => ~res.ok /\ res.err = "path is not an array"
           /\ args.src.t # "obj" => ~res.ok

\* A patch that is not an Object refused although no element matches.
C21_Witness ==
    /\ op = "update_where"
    /\ HasArray(pre, args.path)
    /\ Matching(Get(pre, args.path).v, args.key, args.val) = {}
    /\ Len(Get(pre, args.path).v) > 0
    /\ args.src.t # "obj"
    /\ ~res.ok
    /\ res.err = "updates is not an object"

\* A spec entry the batch update takes: an Object with an integer
\* match_value and an Object updates.
WellFormedEntry(entry) ==
    /\ entry.t = "obj"
    /\ Get(entry, "match_value") # None
    /\ Get(entry, "match_value").t = "int"
    /\ Get(entry, "updates") # None
    /\ Get(entry, "updates").t = "obj"

\* The well-formed entries of specs whose match_value is the integer that
\* element holds under key.
EntriesFor(specs, element, key) ==
    {j \in 1..Len(specs) :
        /\ WellFormedEntry(specs[j])
        /\ element.t = "obj"
        /\ Get(element, key) # None
        /\ Get(element, key) = Get(specs[j], "match_value")}

LastOf(S) == CHOOSE j \in S : \A k \in S : k <= j

\* The call is a batch update of an array by a list of entries.
BatchApplies ==
    /\ op = "update_where_batch"
    /\ HasArray(pre, args.path)
    /\ args.src.t = "arr"

\* C22 as stated: malformed entries are skipped without error and every
\* array element that is an Object whose match_key holds the match_value of
\* a well-formed entry has that entry's updates shallow-merged into it, every
\* other element being unchanged and length and order kept.
C22_Original ==
    BatchApplies
    => /\ res.ok
       /\ LET before == Get(pre, args.path).v
              after == Get(res.val, args.path).v
          IN  /\ OnlyArrayChanged(pre, res.val, args.path, after)
              /\ Len(after) = Len(before)
              /\ \A i \in 1..Len(before) :
                     LET entries == EntriesFor(args.src.v, before[i], args.key)
                     IN  IF entries = {} THEN after[i] = before[i]
                         ELSE \A j \in entries :
                                  /\ after[i].t = "obj"
                                  /\ IsShallowMerge(after[i].v, before[i].v,
                                         Get(args.src.v[j], "updates").v)

\* C22 (amended): malformed entries are skipped without error and every
\* array element that is an Object whose match_key holds the match_value of
\* a well-formed entry has the updates of the last such entry shallow-merged
\* into it, earlier entries of the same match_value having no effect; every
\* other element is unchanged and length and order are kept.
C22_BatchUpdate ==
    BatchApplies
    => /\ res.ok
       /\ LET before == Get(pre, args.path).v
              after == Get(res.val, args.path).v
          IN  /\ OnlyArrayChanged(pre, res.val, args.path, after)
              /\ Len(after) = Len(before)
              /\ \A i \in 1..Len(before) :
                     LET entries == EntriesFor(args.src.v, before[i], args.key)
                     IN  IF entries = {} THEN after[i] = before[i]
                         ELSE /\ after[i].t = "obj"
                              /\ IsShallowMerge(after[i].v, before[i].v,
                                     Get(args.src.v[LastOf(entries)],
                                         "updates").v)

\* Malformed entries skipped and the well-formed ones applied to the elements
\* of their ids, next to an Object element left alone.
C22_Witness ==
    /\ BatchApplies
    /\ res.ok
    /\ \E j \in 1..Len(args.src.v) : ~WellFormedEntry(args.src.v[j])
    /\ LET before == Get(pre, args.path).v
           after == Get(res.val, args.path).v
       IN  /\ Cardinality({i \in 1..Len(before) :
                  EntriesFor(args.src.v, before[i], args.key) # {}}) >= 2
           /\ \E i \in 1..Len(before) : after[i] # before[i]
           /\ \E i \in 1..Len(before) :
                  /\ before[i].t = "obj"
                  /\ EntriesFor(args.src.v, before[i], args.key) = {}
                  /\ after[i] = before[i]

-----------------------------------------------------------------------------
(* Values handed to compare_values three at a time *)

CompareValues == SortValues \cup {Bool(FALSE), Arr(<<>>)}

\* doc holds the three values a, b, c as an Array.
InitCompare ==
    /\ doc \in {Arr(<<a, b, c>>) : a \in CompareValues, b \in CompareValues,
                                    c \in CompareValues}
    /\ pre = doc
    /\ op = "init"
    /\ args = NoArgs
    /\ res = Ok(doc)

\* res.val holds the orderings returned for the pairs of a, b, c.
CompareValuesCall ==
    LET a == doc.v[1]
        b == doc.v[2]
        c == doc.v[3]
    IN  Evaluate("compare_values", NoArgs,
                 Ok([aa |-> compare_values(a, a),
                     ab |-> compare_values(a, b),
                     ba |-> compare_values(b, a),
                     bc |-> compare_values(b, c),
                     ac |-> compare_values(a, c)]))

NextCompare == CompareValuesCall

SpecCompare == InitCompare /\ [][NextCompare]_vars

IsScalar(val) == val.t \notin {"arr", "obj"}

\* C23: compare_values is a total order on scalar values consistent with
\* Null < Bool < Number < String (false < true, numbers by value, strings
\* lexicographic): a value compares Equal to itself, a is Less than b exactly
\* when b is Greater than a, Less is transitive, and Arrays and Objects
\* compare Equal to each other.
C23_TotalOrder ==
    op = "compare_values"
    => LET a == pre.v[1]
           b == pre.v[2]
           c == pre.v[3]
           o == res.val
       IN  /\ (IsScalar(a) /\ IsScalar(b) /\ IsScalar(c))
              => /\ o.aa = "Equal"
                 /\ o.ab = "Less" <=> o.ba = "Greater"
                 /\ (o.ab = "Less" /\ o.bc = "Less") => o.ac = "Less"
                 /\ OrdersBefore(a, b) => o.ab = "Less"
           /\ (~IsScalar(a) /\ ~IsScalar(b)) => o.ab = "Equal"

-----------------------------------------------------------------------------
(* Deleting an element of a sorted array and inserting it again *)

\* The array before the round trip, the position of the element taken out,
\* the element, and the array afterwards.
Before == pre.v["items"].v
Taken == FirstOf(Matching(Before, args.src.v, args.val))
After == doc.v["items"].v
Ascending == args.order \in {NoStr, "ASC", "asc"}

\* The number of positions of items holding x.
Occurrences(items, x) == Cardinality({i \in 1..Len(items) : items[i] = x})

\* The round trip has acted on an array sorted on the feed's key, the element
\* matched first carrying that key.
RoundTripped ==
    /\ op = "delete_reinsert"
    /\ SortedOn(Before, args.key, Ascending)
    /\ Get(Before[Taken], args.key) # None

\* The parts of the round trip that hold of every sorted array: the same
\* elements, still sorted, the other elements in their original order.
RoundTripKeeps ==
    /\ res.ok
    /\ Len(After) = Len(Before)
    /\ \A i \in 1..Len(Before) :
           Occurrences(After, Before[i]) = Occurrences(Before, Before[i])
    /\ SortedOn(After, args.key, Ascending)
    /\ \E j \in 1..Len(After) :
           After[j] = Before[Taken] /\ Remove(After, j - 1) = Remove(Before, Taken - 1)

\* C24 as written: the round trip keeps the elements, the order and the
\* relative order of the other elements, and gives back the original array
\* when no other element carries the sort value of the element taken out.
C24_Original ==
    RoundTripped
    => /\ RoundTripKeeps
       /\ (\A k \in 1..Len(Before) :
               k # Taken => Get(Before[k], args.key) # Get(Before[Taken], args.key))
          => After = Before

\* The sort values of a and b are told apart by the sort order.
StrictlyOrdered(a, b) == OrdersBefore(a, b) \/ OrdersBefore(b, a)

\* C24, amended: the round trip keeps the elements, the order and the
\* relative order of the other elements, and gives back the original array
\* when no other element carries a sort value that compare_values does not
\* tell apart from that of the element taken out, and the element right
\* after it, if any, has the sort key.
C24_RoundTrip ==
    RoundTripped
    => /\ RoundTripKeeps
       /\ ( /\ \A k \in 1..Len(Before) :
                   (k # Taken /\ Get(Before[k], args.key) # None)
                   => StrictlyOrdered(Get(Before[k], args.key),
                                      Get(Before[Taken], args.key))
            /\ Taken < Len(Before) => Get(Before[Taken + 1], args.key) # None )
          => After = Before

\* A full array whose middle element was taken out and came back to its
\* place between two keyed neighbours of other sort values.
C24_Witness ==
    /\ RoundTripped
    /\ Len(Before) = MaxSortLen
    /\ Taken = 2
    /\ Get(Before[1], args.key) # None
    /\ Get(Before[3], args.key) # None
    /\ StrictlyOrdered(Get(Before[1], args.key), Get(Before[2], args.key))
    /\ StrictlyOrdered(Get(Before[3], args.key), Get(Before[2], args.key))
    /\ After = Before

-----------------------------------------------------------------------------
(* Deleting twice *)

\* The document after a delete, put through the same delete once more.
DeletedAgain == jsonb_array_delete_where(doc, args.path, args.key, args.val)

\* C25 as written: for every document, field, match_key and match_value, a
\* second delete with the same arguments returns the document the first one
\* returned.
C25_Original ==
    op = "delete_where" => DeletedAgain = Ok(doc)

\* C25, amended: when the array under the field holds at most one element
\* matching (match_key, match_value), or the field is absent or holds no
\* Array, a second delete with the same arguments returns the document the
\* first one returned.
C25_DeleteTwice ==
    (/\ op = "delete_where"
     /\ HasArray(pre, args.path)
        => Cardinality(Matching(pre.v[args.path].v, args.key, args.val)) <= 1)
    => DeletedAgain = Ok(doc)

\* The only matching element went out of an array that keeps another element,
\* and the second delete finds nothing to remove.
C25_Witness ==
    /\ op = "delete_where"
    /\ HasArray(pre, args.path)
    /\ Cardinality(Matching(pre.v[args.path].v, args.key, args.val)) = 1
    /\ Len(doc.v[args.path].v) >= 1
    /\ doc # pre
    /\ DeletedAgain = Ok(doc)

-----------------------------------------------------------------------------
(* Where an inserted element lands *)

\* The array the insert found (empty when the field was absent), the new
\* element and its sort value.
Found == IF Get(pre, args.path) = None THEN <<>> ELSE pre.v[args.path].v
NewElem == args.src
NewVal == Get(NewElem, args.key)

\* The positions of Found whose element has the sort key with a value that
\* orders strictly after NewVal in the direction of the feed.
StrictlyAfter ==
    {i \in 1..Len(Found) :
        /\ Get(Found[i], args.key) # None
        /\ IF Ascending THEN OrdersBefore(NewVal, Get(Found[i], args.key))
           ELSE OrdersBefore(Get(Found[i], args.key), NewVal)}

\* The position (1-based) the rule gives the new element.
Place ==
    IF args.key = NoStr \/ NewVal = None \/ StrictlyAfter = {}
    THEN Len(Found) + 1
    ELSE FirstOf(StrictlyAfter)

\* C26: an insert into an Object document whose field is absent or an Array
\* adds the new element once, at the end without sort key or sort value,
\* otherwise right before the first keyed element ordering strictly after it
\* (at the end if none, so behind equal values), the others keeping their
\* order; the direction is ASC for an absent order or "ASC" in any case and
\* DESC for every other string.
C26_InsertPosition ==
    (/\ op = "insert_where"
     /\ pre.t = "obj"
     /\ Get(pre, args.path) = None \/ HasArray(pre, args.path))
    => /\ res.ok
       /\ HasArray(doc, args.path)
       /\ Len(After) = Len(Found) + 1
       /\ After[Place] = NewElem
       /\ \A i \in 1..Len(Found) :
              After[IF i < Place THEN i ELSE i + 1] = Found[i]

-----------------------------------------------------------------------------
(* jsonb_deep_merge run call by call *)

\* One activation of deep_merge_recursive on two Objects: the target map it
\* owns, the source map it iterates, and the position of the for loop.
Frame(target_obj, source_obj) ==
    [target_obj |-> target_obj, source_obj |-> source_obj,
     keys |-> KeySeq(DOMAIN source_obj), i |-> 1]

\* The call has not returned: val holds the activations, outermost first.
Running(frames) ==
    [ok |-> FALSE, val |-> [t |-> "frames", v |-> frames], err |-> "running"]

\* The for loop stays on the entry it has just handled.
AdvanceStuck(frame) == frame

\* The for loop moves to the next entry of source_obj.
Advance(frame) == [frame EXCEPT !.i = @ + 1]

\* An Object nested n levels deep around an empty Object.
RECURSIVE NestedEmpty(_)
NestedEmpty(n) == IF n = 0 THEN EmptyObj ELSE Obj([n |-> NestedEmpty(n - 1)])

InitRecursion ==
    /\ doc \in MergeTargets \cup {AtLimit, NestedEmpty(MAX_JSONB_DEPTH),
                                  NestedEmpty(MAX_JSONB_DEPTH + 1)}
    /\ pre = doc
    /\ op = "init"
    /\ args = NoArgs
    /\ res = Ok(doc)

\* jsonb_deep_merge up to the first match of deep_merge_recursive: the depth
\* guard, then either the arm where source wins or the first activation.
EnterDeepMerge ==
    \E source \in MergeSources \cup {NestedEmpty(MAX_JSONB_DEPTH),
                                      NestedEmpty(MAX_JSONB_DEPTH + 1)} :
        /\ op = "init"
        /\ args' = Call(<<>>, NoStr, None, source, NoStr)
        /\ UNCHANGED <<doc, pre>>
        /\ IF ~validate_depth(source, MAX_JSONB_DEPTH)
           THEN op' = "deep_merge" /\ res' = Err(doc, "nesting too deep")
           ELSE IF doc.t = "obj" /\ source.t = "obj"
                THEN op' = "merging" /\ res' = Running(<<Frame(doc.v, source.v)>>)
                ELSE op' = "deep_merge" /\ res' = Ok(source)

\* The activations open, the innermost one and the entry its loop is at.
Frames == res.val.v
Top == Frames[Len(Frames)]
AtEntry == op = "merging" /\ Top.i <= Len(Top.keys)
TopKey == Top.keys[Top.i]

\* frames with its innermost activation replaced.
WithTop(frames, frame) == [frames EXCEPT ![Len(frames)] = frame]

\* Entry::Occupied, both values Objects: the recursive call.
Recurse ==
    /\ AtEntry
    /\ TopKey \in DOMAIN Top.target_obj
    /\ Top.target_obj[TopKey].t = "obj" /\ Top.source_obj[TopKey].t = "obj"
    /\ res' = Running(Append(Frames, Frame(Top.target_obj[TopKey].v,
                                            Top.source_obj[TopKey].v)))
    /\ UNCHANGED <<doc, pre, op, args>>

\* Entry::Occupied otherwise: the value is replaced with source's.
ReplaceEntry ==
    /\ AtEntry
    /\ TopKey \in DOMAIN Top.target_obj
    /\ ~(Top.target_obj[TopKey].t = "obj" /\ Top.source_obj[TopKey].t = "obj")
    /\ res' = Running(WithTop(Frames,
                  Advance([Top EXCEPT !.target_obj =
                      MapInsert(@, TopKey, Top.source_obj[TopKey])])))
    /\ UNCHANGED <<doc, pre, op, args>>

\* Entry::Vacant: source's value is inserted.
InsertEntry ==
    /\ AtEntry
    /\ TopKey \notin DOMAIN Top.target_obj
    /\ res' = Running(WithTop(Frames,
                  Advance([Top EXCEPT !.target_obj =
                      MapInsert(@, TopKey, Top.source_obj[TopKey])])))
    /\ UNCHANGED <<doc, pre, op, args>>

\* The loop is over: Value::Object(target_obj) goes to the caller, which is
\* the activation below (it stores the value under its key and moves on) or
\* jsonb_deep_merge.
ReturnObject ==
    /\ op = "merging"
    /\ Top.i > Len(Top.keys)
    /\ IF Len(Frames) = 1
       THEN op' = "deep_merge" /\ res' = Ok(Obj(Top.target_obj))
       ELSE LET caller == Frames[Len(Frames) - 1]
                key == caller.keys[caller.i]
            IN  /\ op' = op
                /\ res' = Running(WithTop(SubSeq(Frames, 1, Len(Frames) - 1),
                              Advance([caller EXCEPT !.target_obj =
                                  MapInsert(@, key, Obj(Top.target_obj))])))
    /\ UNCHANGED <<doc, pre, args>>

NextRecursion ==
    EnterDeepMerge \/ Recurse \/ ReplaceEntry \/ InsertEntry \/ ReturnObject

\* The call runs on: no step of it waits for anything.
SpecRecursion ==
    InitRecursion /\ [][NextRecursion]_vars /\ WF_vars(NextRecursion)

\* The number of recursive calls open inside the outermost one.
RecursionDepth == Len(Frames) - 1

\* C27: every deep merge returns (the merged value, or the guard's error),
\* and while it runs the recursive calls are never nested deeper than
\* source is, hence never deeper than MAX_JSONB_DEPTH, whatever the target.
C27_DeepMergeTerminates ==
    /\ [](op = "merging"
          => /\ RecursionDepth <= get_max_depth(args.src)
             /\ RecursionDepth <= MAX_JSONB_DEPTH)
    /\ [](op = "deep_merge" => res = jsonb_deep_merge(doc, args.src))
    /\ <>(op = "deep_merge")

\* The recursion stands as deep as the source and the guard allow, inside a
\* target that is deeper still.
C27_Witness ==
    /\ op = "merging"
    /\ RecursionDepth = MAX_JSONB_DEPTH
    /\ RecursionDepth = get_max_depth(args.src)
    /\ get_max_depth(doc) > MAX_JSONB_DEPTH

-----------------------------------------------------------------------------
(* The batch update against one update per entry *)

\* The entries of the batch call, and the orders they can be taken in.
Entries == args.src.v
Orders(n) == {p \in [1..n -> 1..n] : \A i, j \in 1..n : p[i] = p[j] => i = j}

\* jsonb_array_update_where called once per entry, in the order p, from entry
\* i on; r is what the calls so far returned, and an error ends the sequence.
RECURSIVE OnePerEntry(_, _, _)
OnePerEntry(r, p, i) ==
    IF i > Len(Entries) \/ ~r.ok THEN r
    ELSE OnePerEntry(
             jsonb_array_update_where(r.val, args.path, args.key,
                 Entries[p[i]].v["match_value"], Entries[p[i]].v["updates"]),
             p, i + 1)

\* The elements of the array are Objects with pairwise distinct integers at
\* match_key; the entries are well-formed, with pairwise distinct
\* match_values and updates that leave match_key alone.
DistinctIds ==
    /\ HasArray(pre, args.path)
    /\ \A i \in 1..Len(pre.v[args.path].v) :
           /\ Get(pre.v[args.path].v[i], args.key) # None
           /\ Get(pre.v[args.path].v[i], args.key).t = "int"
    /\ \A i, j \in 1..Len(pre.v[args.path].v) :
           Get(pre.v[args.path].v[i], args.key)
               = Get(pre.v[args.path].v[j], args.key) => i = j

DistinctEntries ==
    /\ args.src.t = "arr"
    /\ \A i \in 1..Len(Entries) :
           /\ WellFormedEntry(Entries[i])
           /\ args.key \notin DOMAIN Entries[i].v["updates"].v
    /\ \A i, j \in 1..Len(Entries) :
           Entries[i].v["match_value"] = Entries[j].v["match_value"] => i = j

\* C28: on a document whose array elements have pairwise distinct integers
\* at match_key, with well-formed entries of pairwise distinct match_values
\* whose updates do not contain match_key, the batch update returns what one
\* update_first_match per entry returns, in whatever order the entries are
\* taken.
C28_BatchIsSequential ==
    (op = "update_where_batch" /\ DistinctIds /\ DistinctEntries)
    => \A p \in Orders(Len(Entries)) : OnePerEntry(Ok(pre), p, 1) = res

-----------------------------------------------------------------------------
(* Hops that merge_at_path creates *)

\* The first i keys of the path of the call.
PathUpTo(i) == SubSeq(args.path, 1, i)

\* The numbers m such that the first m keys of the path lead through Objects
\* of the target and the Object they end in lacks the next key.
MissingFrom ==
    {m \in 0..(Len(args.path) - 1) :
        /\ \A i \in 0..m : NavKeys(pre, PathUpTo(i)) # None
                           /\ NavKeys(pre, PathUpTo(i)).t = "obj"
        /\ args.path[m + 1] \notin DOMAIN NavKeys(pre, PathUpTo(m)).v}

\* C29: merge_at_path of an Object source along a non-empty path whose keys
\* are absent from an Object target from some hop on succeeds; every missing
\* hop but the last holds a new Object with the next key alone, the full
\* path holds source, and the Objects that were on the path keep every key
\* and value they had, gaining only the next key.
C29_CreatesMissingHops ==
    (/\ op = "merge_at_path"
     /\ args.path # <<>>
     /\ args.src.t = "obj"
     /\ pre.t = "obj"
     /\ MissingFrom # {})
    => /\ res.ok
       /\ NavKeys(res.val, args.path) = args.src
       /\ \A m \in MissingFrom :
              /\ \A j \in (m + 1)..(Len(args.path) - 1) :
                     /\ NavKeys(res.val, PathUpTo(j)) # None
                     /\ NavKeys(res.val, PathUpTo(j)).t = "obj"
                     /\ DOMAIN NavKeys(res.val, PathUpTo(j)).v = {args.path[j + 1]}
              /\ \A i \in 0..m :
                     LET before == NavKeys(pre, PathUpTo(i)).v
                         after == NavKeys(res.val, PathUpTo(i))
                     IN  /\ after # None
                         /\ after.t = "obj"
                         /\ DOMAIN after.v = DOMAIN before \cup {args.path[i + 1]}
                         /\ \A k \in DOMAIN before \ {args.path[i + 1]} :
                                after.v[k] = before[k]

\* Two hops created below an Object that was there, next to a sibling that
\* stays, with a source that has keys.
C29_Witness ==
    /\ op = "merge_at_path"
    /\ Len(args.path) = 3
    /\ args.src.t = "obj"
    /\ DOMAIN args.src.v # {}
    /\ pre.t = "obj"
    /\ MissingFrom = {1}
    /\ DOMAIN NavKeys(pre, PathUpTo(1)).v # {}
    /\ res.ok
    /\ NavKeys(res.val, args.path) = args.src

-----------------------------------------------------------------------------
(* Deep merges one after another *)

\* The sequence starts from a document of depth at most D; args.val holds D.
\* The documents reach beyond the depth the guard admits.
InitChain ==
    /\ doc \in {I64(5), EmptyObj, Obj([a |-> I64(1)]),
                 Obj([a |-> Obj([b |-> I64(1)])]),
                 Obj([b |-> Arr(<<EmptyObj>>)]), NestedEmpty(2), AtLimit,
                 TooDeep}
    /\ pre = doc
    /\ op = "init"
    /\ \E D \in get_max_depth(doc)..(MAX_JSONB_DEPTH + 1) :
           args = Call(<<>>, NoStr, I64(D), None, NoStr)
    /\ res = Ok(doc)

\* One more deep merge, with a source of depth at most D.
DeepMergeNext ==
    \E source \in {Str("a"), EmptyObj, Obj([a |-> Obj([a |-> I64(2)])]),
                    Obj([a |-> Arr(<<Arr(<<I64(1)>>)>>), b |-> I64(2)]),
                    Obj([b |-> Obj([a |-> Obj([a |-> EmptyObj])])]),
                    NestedEmpty(1), NestedEmpty(MAX_JSONB_DEPTH), Nested(2),
                    AtLimit, TooDeep} :
        /\ get_max_depth(source) <= args.val.v
        /\ Apply("deep_merge", Call(<<>>, NoStr, args.val, source, NoStr),
                 jsonb_deep_merge(doc, source))

SpecChain == InitChain /\ [][DeepMergeNext]_vars

\* C30: the merge of a target and a source is no deeper than the deeper of
\* the two, so a document of depth at most D that is deep-merged again and
\* again with sources of depth at most D stays of depth at most D.
C30_DepthNeverGrows ==
    /\ op = "deep_merge"
       => /\ get_max_depth(deep_merge_recursive(pre, args.src))
                 <= Max(get_max_depth(pre), get_max_depth(args.src))
          /\ res.ok => get_max_depth(res.val)
                           <= Max(get_max_depth(pre), get_max_depth(args.src))
    /\ get_max_depth(doc) <= args.val.v

\* A merge that went through two levels of Objects and left a document as
\* deep as D allows, deeper than it was before.
C30_Witness ==
    /\ op = "deep_merge"
    /\ res.ok
    /\ pre.t = "obj"
    /\ args.src.t = "obj"
    /\ doc # pre
    /\ doc # args.src
    /\ get_max_depth(doc) = args.val.v
    /\ get_max_depth(doc) > get_max_depth(pre)
    /\ get_max_depth(doc) = MAX_JSONB_DEPTH

====
